---- MODULE Spec2Model ----
(***************************************************************************)
(* Sentence-to-word-timestamp alignment core of the dictation pipeline:    *)
(* normalisation and tokenisation (pipeline/normalize.py), the fuzzy       *)
(* Local Aligner (pipeline/alignment.py), the LLM aligner                  *)
(* (pipeline/grok_alignment.py), the hybrid coordinator and the build      *)
(* (pipeline/builder.py) and the manifest (pipeline/manifest.py).          *)
(*                                                                         *)
(* Text is modelled at character level: a string is a sequence of          *)
(* one-character strings.  Floating-point scores are modelled in fixed     *)
(* point, in millionths (Micro), rounded down; comparisons of an edit      *)
(* ratio with a threshold are exact integer comparisons.                   *)
(***************************************************************************)
EXTENDS Integers, Sequences, FiniteSets, TLC

(***************************************************************************)
(* Characters                                                              *)
(***************************************************************************)
Lowers == <<"a","b","c","d","e","f","g","h","i","j","k","l","m",
            "n","o","p","q","r","s","t","u","v","w","x","y","z">>

Uppers == <<"A","B","C","D","E","F","G","H","I","J","K","L","M",
            "N","O","P","Q","R","S","T","U","V","W","X","Y","Z">>

DigitChars == {"0","1","2","3","4","5","6","7","8","9"}

\* the em dash and the en dash, which normalize_token replaces
EmDash == "EM-DASH"

EnDash == "EN-DASH"

Range(s) == {s[i] : i \in DOMAIN s}

\* str.lower() on one character
ToLower(c) ==
    IF \E i \in DOMAIN Uppers : Uppers[i] = c
    THEN Lowers[CHOOSE i \in DOMAIN Uppers : Uppers[i] = c]
    ELSE c

\* the regular expression class \w
IsWordChar(c) == c \in Range(Lowers) \cup Range(Uppers) \cup DigitChars \cup {"_"}

\* the regular expression class \s
IsSpace(c) == c = " "

IsDigit(c) == c \in DigitChars

MapSeq(s, F(_)) == [i \in DOMAIN s |-> F(s[i])]

\* str.replace(old, new) for a one-character old and a string new
RECURSIVE ReplaceChar(_, _, _)
ReplaceChar(s, old, new) ==
    IF s = <<>> THEN <<>>
    ELSE (IF Head(s) = old THEN new ELSE <<Head(s)>>) \o ReplaceChar(Tail(s), old, new)

\* str.strip() and re.sub(r'\s+', ' ', s)
RECURSIVE LStrip(_)
LStrip(s) == IF s # <<>> /\ IsSpace(Head(s)) THEN LStrip(Tail(s)) ELSE s

RECURSIVE RStrip(_)
RStrip(s) ==
    IF s # <<>> /\ IsSpace(s[Len(s)]) THEN RStrip(SubSeq(s, 1, Len(s) - 1)) ELSE s

RECURSIVE CollapseSpaces(_)
CollapseSpaces(s) ==
    IF s = <<>> THEN <<>>
    ELSE IF IsSpace(Head(s))
         THEN <<" ">> \o CollapseSpaces(LStrip(s))
         ELSE <<Head(s)>> \o CollapseSpaces(Tail(s))

\* re.sub(r'(?<=\w)-(?=\w)', '', s): drop a hyphen between two word characters
RECURSIVE CollapseInWordHyphens(_, _)
CollapseInWordHyphens(s, i) ==
    IF i > Len(s) THEN <<>>
    ELSE (IF /\ s[i] = "-"
             /\ i > 1 /\ IsWordChar(s[i - 1])
             /\ i < Len(s) /\ IsWordChar(s[i + 1])
          THEN <<>> ELSE <<s[i]>>) \o CollapseInWordHyphens(s, i + 1)

\* re.sub(r"[^\w'\s]", " ", s)
StripPunctuation(s) ==
    MapSeq(s, LAMBDA c : IF IsWordChar(c) \/ c = "'" \/ IsSpace(c) THEN c ELSE " ")

\* re.sub(r"\s'\s", " ", s): matches are taken left to right and do not overlap
RECURSIVE DropStandaloneApostrophes(_)
DropStandaloneApostrophes(s) ==
    IF s = <<>> THEN <<>>
    ELSE IF Len(s) >= 3 /\ IsSpace(s[1]) /\ s[2] = "'" /\ IsSpace(s[3])
         THEN <<" ">> \o DropStandaloneApostrophes(SubSeq(s, 4, Len(s)))
         ELSE <<Head(s)>> \o DropStandaloneApostrophes(Tail(s))

\* re.sub(r"^'\s", "", s)
DropLeadingApostrophe(s) ==
    IF Len(s) >= 2 /\ s[1] = "'" /\ IsSpace(s[2]) THEN SubSeq(s, 3, Len(s)) ELSE s

\* re.sub(r"\s'$", "", s)
DropTrailingApostrophe(s) ==
    IF Len(s) >= 2 /\ IsSpace(s[Len(s) - 1]) /\ s[Len(s)] = "'"
    THEN SubSeq(s, 1, Len(s) - 2) ELSE s

(***************************************************************************)
(* normalize_token and tokenize.  NFKC leaves every modelled character     *)
(* unchanged.  After lower() the acronym test (isupper, or the pattern     *)
(* ^[A-Z]\.([A-Z]\.)+$) is never true, so no dot is removed by it.         *)
(***************************************************************************)
normalize_token(token) ==
    IF token = <<>> THEN <<>>
    ELSE LET lowered == MapSeq(token, ToLower)
             dashed  == ReplaceChar(ReplaceChar(lowered, EmDash, <<" ">>), EnDash, <<"-">>)
             joined  == CollapseInWordHyphens(dashed, 1)
             nopunct == StripPunctuation(joined)
             noapos  == DropTrailingApostrophe(
                           DropLeadingApostrophe(DropStandaloneApostrophes(nopunct)))
         IN  RStrip(LStrip(CollapseSpaces(noapos)))

\* the longest prefix of s made of word characters and apostrophes
RECURSIVE WordRun(_)
WordRun(s) ==
    IF s # <<>> /\ (IsWordChar(Head(s)) \/ Head(s) = "'")
    THEN <<Head(s)>> \o WordRun(Tail(s))
    ELSE <<>>

\* re.findall(r"\w[\w']*", s)
RECURSIVE FindTokens(_)
FindTokens(s) ==
    IF s = <<>> THEN <<>>
    ELSE IF IsWordChar(Head(s))
         THEN LET run == WordRun(s)
              IN  <<run>> \o FindTokens(SubSeq(s, Len(run) + 1, Len(s)))
         ELSE FindTokens(Tail(s))

tokenize(text) == FindTokens(normalize_token(text))

(***************************************************************************)
(* rapidfuzz.fuzz.ratio: 100 * 2 * LCS(a, b) / (|a| + |b|), the normalised *)
(* indel similarity.  LCS is computed row by row.                          *)
(***************************************************************************)
Max(x, y) == IF x >= y THEN x ELSE y

Min(x, y) == IF x <= y THEN x ELSE y

\* one millionth is the unit of every score
Micro == 10 ^ 6

\* one row of the table: cur holds the columns 0..Len(cur)-1 of the row of ch
RECURSIVE LCSRow(_, _, _, _)
LCSRow(prev, ch, b, cur) ==
    IF Len(cur) > Len(b) THEN cur
    ELSE LCSRow(prev, ch, b,
                Append(cur, IF ch = b[Len(cur)] THEN prev[Len(cur)] + 1
                            ELSE Max(prev[Len(cur) + 1], cur[Len(cur)])))

RECURSIVE LCSRows(_, _, _, _)
LCSRows(a, b, i, prev) ==
    IF i > Len(a) THEN prev[Len(b) + 1]
    ELSE LCSRows(a, b, i + 1, LCSRow(prev, a[i], b, <<0>>))

LCS(a, b) == LCSRows(a, b, 1, [j \in 1..(Len(b) + 1) |-> 0])

\* fuzz.ratio(a, b) >= threshold, exactly
RatioAtLeast(a, b, threshold) ==
    IF Len(a) + Len(b) = 0 THEN 100 >= threshold
    ELSE 200 * LCS(a, b) >= threshold * (Len(a) + Len(b))

\* fuzz.ratio(a, b) / 100.0, in millionths
RatioMicro(a, b) ==
    IF Len(a) + Len(b) = 0 THEN Micro
    ELSE (2 * LCS(a, b) * Micro) \div (Len(a) + Len(b))

(***************************************************************************)
(* Tables of pipeline/normalize.py and pipeline/alignment.py               *)
(***************************************************************************)
UNIT_ABBREVIATIONS ==
       (<<"k","m">> :> <<"k","i","l","o","m","e","t","e","r","s">>)
    @@ (<<"k","i","l","o","m","e","t","e","r">> :> <<"k","i","l","o","m","e","t","e","r","s">>)
    @@ (<<"k","i","l","o","m","e","t","r","e","s">> :> <<"k","i","l","o","m","e","t","e","r","s">>)
    @@ (<<"k","i","l","o","m","e","t","r","e">> :> <<"k","i","l","o","m","e","t","e","r","s">>)
    @@ (<<"m">> :> <<"m","e","t","e","r","s">>)
    @@ (<<"m","e","t","e","r">> :> <<"m","e","t","e","r","s">>)
    @@ (<<"m","e","t","r","e","s">> :> <<"m","e","t","e","r","s">>)
    @@ (<<"m","e","t","r","e">> :> <<"m","e","t","e","r","s">>)
    @@ (<<"c","m">> :> <<"c","e","n","t","i","m","e","t","e","r","s">>)
    @@ (<<"c","e","n","t","i","m","e","t","e","r">> :> <<"c","e","n","t","i","m","e","t","e","r","s">>)
    @@ (<<"c","e","n","t","i","m","e","t","r","e">> :> <<"c","e","n","t","i","m","e","t","e","r","s">>)
    @@ (<<"f","t">> :> <<"f","e","e","t">>)
    @@ (<<"f","o","o","t">> :> <<"f","e","e","t">>)
    @@ (<<"m","i">> :> <<"m","i","l","e","s">>)
    @@ (<<"m","i","l","e">> :> <<"m","i","l","e","s">>)
    @@ (<<"l","b">> :> <<"p","o","u","n","d","s">>)
    @@ (<<"l","b","s">> :> <<"p","o","u","n","d","s">>)
    @@ (<<"p","o","u","n","d">> :> <<"p","o","u","n","d","s">>)
    @@ (<<"k","g">> :> <<"k","i","l","o","g","r","a","m","s">>)
    @@ (<<"k","i","l","o","g","r","a","m">> :> <<"k","i","l","o","g","r","a","m","s">>)
    @@ (<<"g">> :> <<"g","r","a","m","s">>)
    @@ (<<"g","r","a","m">> :> <<"g","r","a","m","s">>)
    @@ (<<"o","z">> :> <<"o","u","n","c","e","s">>)
    @@ (<<"o","u","n","c","e">> :> <<"o","u","n","c","e","s">>)
    @@ (<<"i","n">> :> <<"i","n","c","h","e","s">>)
    @@ (<<"i","n","c","h">> :> <<"i","n","c","h","e","s">>)
    @@ (<<"y","d">> :> <<"y","a","r","d","s">>)
    @@ (<<"y","a","r","d">> :> <<"y","a","r","d","s">>)
    @@ (<<"m","p","h">> :> <<"m","i","l","e","s"," ","p","e","r"," ","h","o","u","r">>)
    @@ (<<"k","p","h">> :> <<"k","i","l","o","m","e","t","e","r","s"," ","p","e","r"," ","h","o","u","r">>)
    @@ (<<"l">> :> <<"l","i","t","e","r","s">>)
    @@ (<<"l","i","t","e","r">> :> <<"l","i","t","e","r","s">>)
    @@ (<<"l","i","t","r","e">> :> <<"l","i","t","e","r","s">>)
    @@ (<<"m","l">> :> <<"m","i","l","l","i","l","i","t","e","r","s">>)

contractions ==
       (<<"d","o","n","'","t">> :> <<<<"d","o">>, <<"n","o","t">>>>)
    @@ (<<"d","o","e","s","n","t">> :> <<<<"d","o","e","s">>, <<"n","o","t">>>>)
    @@ (<<"d","i","d","n","'","t">> :> <<<<"d","i","d">>, <<"n","o","t">>>>)
    @@ (<<"w","o","n","'","t">> :> <<<<"w","i","l","l">>, <<"n","o","t">>>>)
    @@ (<<"c","a","n","'","t">> :> <<<<"c","a","n">>, <<"n","o","t">>>>)
    @@ (<<"c","a","n","n","o","t">> :> <<<<"c","a","n">>, <<"n","o","t">>>>)
    @@ (<<"c","o","u","l","d","n","'","t">> :> <<<<"c","o","u","l","d">>, <<"n","o","t">>>>)
    @@ (<<"s","h","o","u","l","d","n","'","t">> :> <<<<"s","h","o","u","l","d">>, <<"n","o","t">>>>)
    @@ (<<"w","o","u","l","d","n","'","t">> :> <<<<"w","o","u","l","d">>, <<"n","o","t">>>>)
    @@ (<<"i","'","m">> :> <<<<"i">>, <<"a","m">>>>)
    @@ (<<"y","o","u","'","r","e">> :> <<<<"y","o","u">>, <<"a","r","e">>>>)
    @@ (<<"w","e","'","r","e">> :> <<<<"w","e">>, <<"a","r","e">>>>)
    @@ (<<"t","h","e","y","'","r","e">> :> <<<<"t","h","e","y">>, <<"a","r","e">>>>)
    @@ (<<"h","e","'","s">> :> <<<<"h","e">>, <<"i","s">>>>)
    @@ (<<"s","h","e","'","s">> :> <<<<"s","h","e">>, <<"i","s">>>>)
    @@ (<<"i","t","'","s">> :> <<<<"i","t">>, <<"i","s">>>>)
    @@ (<<"t","h","a","t","'","s">> :> <<<<"t","h","a","t">>, <<"i","s">>>>)
    @@ (<<"t","h","e","r","e","'","s">> :> <<<<"t","h","e","r","e">>, <<"i","s">>>>)
    @@ (<<"h","e","r","e","'","s">> :> <<<<"h","e","r","e">>, <<"i","s">>>>)
    @@ (<<"w","h","a","t","'","s">> :> <<<<"w","h","a","t">>, <<"i","s">>>>)
    @@ (<<"w","h","o","'","s">> :> <<<<"w","h","o">>, <<"i","s">>>>)
    @@ (<<"i","'","l","l">> :> <<<<"i">>, <<"w","i","l","l">>>>)
    @@ (<<"y","o","u","'","l","l">> :> <<<<"y","o","u">>, <<"w","i","l","l">>>>)
    @@ (<<"w","e","'","l","l">> :> <<<<"w","e">>, <<"w","i","l","l">>>>)
    @@ (<<"t","h","e","y","'","l","l">> :> <<<<"t","h","e","y">>, <<"w","i","l","l">>>>)
    @@ (<<"h","e","'","l","l">> :> <<<<"h","e">>, <<"w","i","l","l">>>>)
    @@ (<<"s","h","e","'","l","l">> :> <<<<"s","h","e">>, <<"w","i","l","l">>>>)
    @@ (<<"i","'","v","e">> :> <<<<"i">>, <<"h","a","v","e">>>>)
    @@ (<<"y","o","u","'","v","e">> :> <<<<"y","o","u">>, <<"h","a","v","e">>>>)
    @@ (<<"w","e","'","v","e">> :> <<<<"w","e">>, <<"h","a","v","e">>>>)
    @@ (<<"t","h","e","y","'","v","e">> :> <<<<"t","h","e","y">>, <<"h","a","v","e">>>>)
    @@ (<<"i","'","d">> :> <<<<"i">>, <<"w","o","u","l","d">>>>)
    @@ (<<"y","o","u","'","d">> :> <<<<"y","o","u">>, <<"w","o","u","l","d">>>>)
    @@ (<<"h","e","'","d">> :> <<<<"h","e">>, <<"w","o","u","l","d">>>>)
    @@ (<<"s","h","e","'","d">> :> <<<<"s","h","e">>, <<"w","o","u","l","d">>>>)
    @@ (<<"w","e","'","d">> :> <<<<"w","e">>, <<"w","o","u","l","d">>>>)
    @@ (<<"t","h","e","y","'","d">> :> <<<<"t","h","e","y">>, <<"w","o","u","l","d">>>>)

STOPWORDS ==
    {<<"t","h","e">>, <<"a">>, <<"a","n">>, <<"a","n","d">>,
     <<"o","r">>, <<"b","u","t">>, <<"i","n">>, <<"o","n">>,
     <<"a","t">>, <<"t","o">>, <<"f","o","r">>, <<"o","f">>,
     <<"w","i","t","h">>, <<"b","y">>, <<"f","r","o","m">>, <<"a","s">>,
     <<"i","s">>, <<"w","a","s">>, <<"a","r","e">>, <<"w","e","r","e">>,
     <<"b","e","e","n">>, <<"b","e">>, <<"h","a","v","e">>, <<"h","a","s">>,
     <<"h","a","d">>, <<"d","o">>, <<"d","o","e","s">>, <<"d","i","d">>,
     <<"w","i","l","l">>, <<"w","o","u","l","d">>, <<"c","o","u","l","d">>, <<"s","h","o","u","l","d">>,
     <<"m","a","y">>, <<"m","i","g","h","t">>, <<"m","u","s","t">>, <<"c","a","n">>,
     <<"t","h","i","s">>, <<"t","h","a","t">>, <<"t","h","e","s","e">>, <<"t","h","o","s","e">>,
     <<"i">>, <<"y","o","u">>, <<"h","e">>, <<"s","h","e">>,
     <<"i","t">>, <<"w","e">>, <<"t","h","e","y">>}

stopwords ==
    {<<"t","h","e">>, <<"a">>, <<"a","n">>, <<"a","n","d">>,
     <<"o","r">>, <<"b","u","t">>, <<"i","n">>, <<"o","n">>,
     <<"a","t">>, <<"t","o">>, <<"f","o","r">>, <<"o","f">>,
     <<"w","i","t","h">>, <<"b","y">>, <<"f","r","o","m">>, <<"a","s">>,
     <<"i","s">>, <<"w","a","s">>, <<"a","r","e">>, <<"w","e","r","e">>,
     <<"b","e","e","n">>, <<"b","e">>, <<"h","a","v","e">>, <<"h","a","s">>,
     <<"h","a","d">>, <<"d","o">>, <<"d","o","e","s">>, <<"d","i","d">>,
     <<"w","i","l","l">>, <<"w","o","u","l","d">>, <<"c","o","u","l","d">>, <<"s","h","o","u","l","d">>,
     <<"m","a","y">>, <<"m","i","g","h","t">>, <<"m","u","s","t">>, <<"c","a","n">>,
     <<"t","h","i","s">>, <<"t","h","a","t">>, <<"t","h","e","s","e">>, <<"t","h","o","s","e">>,
     <<"i">>, <<"y","o","u">>, <<"h","e">>, <<"s","h","e">>,
     <<"i","t">>, <<"w","e">>, <<"t","h","e","y">>, <<"m","y">>,
     <<"y","o","u","r">>, <<"h","i","s">>, <<"h","e","r">>, <<"i","t","s">>,
     <<"o","u","r">>, <<"t","h","e","i","r">>}

(***************************************************************************)
(* Token equivalences of pipeline/normalize.py                             *)
(***************************************************************************)
RemoveChars(s, cs) == SelectSeq(s, LAMBDA c : c \notin cs)

\* str.rstrip('s.')
RECURSIVE RStripUnit(_)
RStripUnit(s) ==
    IF s # <<>> /\ s[Len(s)] \in {"s", "."}
    THEN RStripUnit(SubSeq(s, 1, Len(s) - 1)) ELSE s

normalize_unit(token) ==
    LET clean == RStripUnit(MapSeq(token, ToLower))
    IN  IF clean \in DOMAIN UNIT_ABBREVIATIONS THEN UNIT_ABBREVIATIONS[clean] ELSE token

generate_contraction_variants(token) ==
    LET tok    == MapSeq(token, ToLower)
        lookup == RemoveChars(tok, {"'"})
    IN  IF lookup \in DOMAIN contractions
        THEN <<<<tok>>, contractions[lookup]>>
        ELSE <<<<tok>>>>

\* str.isdigit()
IsDigitString(s) == s # <<>> /\ \A i \in DOMAIN s : IsDigit(s[i])

DigitValue(c) == CHOOSE d \in 0..9 : <<"0","1","2","3","4","5","6","7","8","9">>[d + 1] = c

\* int(s) for a string of digits
RECURSIVE DigitsToInt(_)
DigitsToInt(s) ==
    IF s = <<>> THEN 0
    ELSE 10 * DigitsToInt(SubSeq(s, 1, Len(s) - 1)) + DigitValue(s[Len(s)])

\* str(n) for n >= 0
RECURSIVE IntToDigits(_)
IntToDigits(n) ==
    IF n < 10 THEN <<(<<"0","1","2","3","4","5","6","7","8","9">>)[n + 1]>>
    ELSE Append(IntToDigits(n \div 10), (<<"0","1","2","3","4","5","6","7","8","9">>)[(n % 10) + 1])

\* num2words(n, to='cardinal') and num2words(n, to='ordinal') of the library
\* num2words, for the numbers the modelled texts contain
num2words_forms(n) ==
    CASE n = 3 -> <<<<"t","h","r","e","e">>, <<"t","h","i","r","d">>>>
      [] n = 6 -> <<<<"s","i","x">>, <<"s","i","x","t","h">>>>
      [] OTHER -> <<>>

\* number_to_words; the year form applies to 1000..2099, which the modelled
\* texts do not contain
number_to_words(num) == <<IntToDigits(num)>> \o num2words_forms(num)

\* the set of variants are_numbers_equivalent compares
NumberVariants(s) ==
    LET digits == SelectSeq(s, IsDigit)
    IN  IF digits # <<>>
        THEN {RemoveChars(v, {" ", "-", ","}) : v \in Range(number_to_words(DigitsToInt(digits)))}
        ELSE {RemoveChars(s, {" ", "-", ","})}

\* are_numbers_equivalent; a normalised token holds no dot, so float(clean)
\* is the integer the digits spell
are_numbers_equivalent(num1, num2) ==
    LET clean1  == RemoveChars(num1, {",", " "})
        clean2  == RemoveChars(num2, {",", " "})
        digits1 == SelectSeq(num1, IsDigit)
        digits2 == SelectSeq(num2, IsDigit)
    IN  \/ /\ IsDigitString(RemoveChars(clean1, {"."}))
           /\ IsDigitString(RemoveChars(clean2, {"."}))
           /\ "." \notin Range(clean1) \cup Range(clean2)
           /\ DigitsToInt(clean1) = DigitsToInt(clean2)
        \/ digits1 # <<>> /\ digits2 # <<>> /\ digits1 = digits2
        \/ NumberVariants(num1) \cap NumberVariants(num2) # {}

(***************************************************************************)
(* AlignmentConfig: thresholds and weights.  Scores and the thresholds     *)
(* min_accept and warn_accept are in millionths, the weights in            *)
(* hundredths.                                                             *)
(***************************************************************************)
AlignmentConfig ==
    [window_tokens          |-> 4000,
     elastic_gap            |-> 10,
     min_accept             |-> 850000,
     warn_accept            |-> 780000,
     token_ratio_cutoff     |-> 92,
     weight_token_sim       |-> 50,
     weight_coverage        |-> 25,
     weight_gap_penalty     |-> 20,
     weight_anchor_bonus    |-> 8,
     weight_bigram_bonus    |-> 5,
     fallback_expand_window |-> 1000,
     fallback_elastic_gap   |-> 18,
     fallback_token_ratio   |-> 88]

\* CandidateSpan.compute_total_score
compute_total_score(cand, cfg) ==
    (  cfg.weight_token_sim    * cand.token_sim
     + cfg.weight_coverage     * cand.coverage
     - cfg.weight_gap_penalty  * cand.gap_penalty
     + cfg.weight_anchor_bonus * cand.anchor_bonus
     + cfg.weight_bigram_bonus * cand.bigram_bonus) \div 100

(***************************************************************************)
(* SentenceAligner._tokens_match                                           *)
(***************************************************************************)
tokens_match(tok1, tok2, threshold) ==
    \/ tok1 = tok2
    \/ RatioAtLeast(tok1, tok2, threshold)
    \/ are_numbers_equivalent(tok1, tok2)
    \/ LET dehyphen1 == RemoveChars(tok1, {"-", " "})
           dehyphen2 == RemoveChars(tok2, {"-", " "})
       IN  dehyphen1 = dehyphen2 /\ Len(dehyphen1) > 3
    \/ LET unit1 == normalize_unit(tok1)
           unit2 == normalize_unit(tok2)
       IN  unit1 = unit2 /\ unit1 # tok1
    \/ \E v1 \in Range(generate_contraction_variants(tok1)) :
         \E v2 \in Range(generate_contraction_variants(tok2)) : v1 = v2

\* SentenceAligner._get_token_weight, times 4
get_token_weight(token) ==
    IF MapSeq(token, ToLower) \in STOPWORDS THEN 2
    ELSE IF token # <<>> /\ IsDigit(token[1]) THEN 5
    ELSE 4

\* ' '.join(tokens)
RECURSIVE JoinSpace(_)
JoinSpace(tokens) ==
    IF tokens = <<>> THEN <<>>
    ELSE IF Len(tokens) = 1 THEN tokens[1]
    ELSE tokens[1] \o <<" ">> \o JoinSpace(Tail(tokens))

\* sub in s, for strings
IsSubstring(sub, s) ==
    \E i \in 0..(Len(s) - Len(sub)) : SubSeq(s, i + 1, i + Len(sub)) = sub

\* SentenceAligner._compute_bigram_bonus
compute_bigram_bonus(sent_tokens, span) ==
    IF Len(sent_tokens) < 2 THEN 0
    ELSE LET span_str == JoinSpace(span)
             matches  == Cardinality(
                 {i \in 1..Min(5, Len(sent_tokens) - 1) :
                     IsSubstring(sent_tokens[i] \o <<" ">> \o sent_tokens[i + 1], span_str)})
         IN  Min(50000, matches * 10000)

RECURSIVE SumSeq(_)
SumSeq(s) == IF s = <<>> THEN 0 ELSE Head(s) + SumSeq(Tail(s))

\* the best single-token similarity of _score_span's first inner loop
BestSingleSim(sent_tok, span, cfg) ==
    LET sims == {RatioMicro(sent_tok, span[j]) : j \in
                   {k \in DOMAIN span :
                       tokens_match(sent_tok, span[k], cfg.token_ratio_cutoff)}}
    IN  IF sims = {} THEN 0 ELSE CHOOSE s \in sims : \A t \in sims : t <= s

\* whether _score_span's 2-/3-word concatenation loop finds a match
CompoundMatch(sent_tok, span, cfg) ==
    LET dehyphen == RemoveChars(sent_tok, {"-"})
    IN  \E j \in 1..(Len(span) - 1) :
          \/ tokens_match(dehyphen, span[j] \o span[j + 1],
                          cfg.token_ratio_cutoff)
          \/ /\ j < Len(span) - 1
             /\ tokens_match(dehyphen,
                             span[j] \o span[j + 1] \o span[j + 2],
                             cfg.token_ratio_cutoff)

\* what one iteration of _score_span's loop records for a sentence token: the
\* similarity appended to token_sims and the increment of matched_count, given
\* the best single-token similarity and whether the compound branch matched
TokenScore(best_sim, compound) ==
    [sim     |-> IF compound THEN 950000 ELSE best_sim,
     matched |-> (IF compound THEN 1 ELSE 0)
                 + (IF compound \/ best_sim > 0 THEN 1 ELSE 0)]

\* the compound branch of the iteration: taken when best_sim < 0.85 and the
\* token holds a hyphen or is longer than 8 characters
CompoundBranch(best_sim, sent_tok, span, cfg) ==
    TokenScore(best_sim,
               /\ best_sim < 850000
               /\ ("-" \in Range(sent_tok) \/ Len(sent_tok) > 8)
               /\ CompoundMatch(sent_tok, span, cfg))

\* one iteration of _score_span's loop over the sentence tokens
ScoreToken(sent_tok, span, cfg) ==
    CompoundBranch(BestSingleSim(sent_tok, span, cfg), sent_tok, span, cfg)

\* SentenceAligner._score_span; start_idx and end_idx count from 0
\* the CandidateSpan _score_span builds from what its loops collected:
\* per_token (similarity and matches per sentence token), the token weights
\* and the number of anchors found in the span
CandidateSpan(start_idx, end_idx, sent_tokens, span_tokens, anchors, per_token, weights, anchors_found) ==
    LET matched_count == SumSeq([i \in DOMAIN sent_tokens |-> per_token[i].matched])
        extra_tokens  == Max(0, Len(span_tokens) - Len(sent_tokens))
        missing       == Len(sent_tokens) - matched_count
    IN  [start_idx    |-> start_idx,
         end_idx      |-> end_idx,
         token_sim    |-> IF SumSeq(weights) > 0
                          THEN SumSeq([i \in DOMAIN sent_tokens |->
                                         per_token[i].sim * weights[i]])
                               \div SumSeq(weights)
                          ELSE 0,
         coverage     |-> IF sent_tokens # <<>>
                          THEN (matched_count * Micro) \div Len(sent_tokens) ELSE 0,
         matched      |-> matched_count,
         gap_penalty  |-> 20000 * extra_tokens + 30000 * missing,
         anchor_bonus |-> IF anchors = <<>> THEN 0
                          ELSE (anchors_found * Micro) \div Len(anchors),
         bigram_bonus |-> compute_bigram_bonus(sent_tokens, span_tokens)]

\* the candidate with its total score
WithTotalScore(cand, cfg) == cand @@ [total_score |-> compute_total_score(cand, cfg)]

\* the loops of _score_span over the sentence tokens and the anchors
ScoreSpanTokens(start_idx, end_idx, sent_tokens, span_tokens, anchors, cfg) ==
    CandidateSpan(start_idx, end_idx, sent_tokens, span_tokens, anchors,
        [i \in DOMAIN sent_tokens |-> ScoreToken(sent_tokens[i], span_tokens, cfg)],
        [i \in DOMAIN sent_tokens |-> get_token_weight(sent_tokens[i])],
        Cardinality(
            {a \in DOMAIN anchors :
                \E k \in DOMAIN span_tokens :
                    tokens_match(anchors[a][2], span_tokens[k], cfg.token_ratio_cutoff)}))

score_span(sent_tokens, start_idx, end_idx, anchors, cfg, nwords) ==
    WithTotalScore(
        ScoreSpanTokens(start_idx, end_idx, sent_tokens,
                        SubSeq(nwords, start_idx + 1, end_idx + 1), anchors, cfg),
        cfg)

(***************************************************************************)
(* compute_token_idf and extract_anchors (pipeline/normalize.py)           *)
(***************************************************************************)
\* the concatenation of tokenize(w) over the normalised words
RECURSIVE AllTokens(_)
AllTokens(nwords) ==
    IF nwords = <<>> THEN <<>>
    ELSE tokenize(Head(nwords)) \o AllTokens(Tail(nwords))

Count(s, x) == Cardinality({i \in DOMAIN s : s[i] = x})

\* compute_token_idf(all_tokens, all_tokens): 1 / (1 + freq / total), in millionths
compute_token_idf(all_tokens) ==
    [t \in Range(all_tokens) |->
        (Micro * Len(all_tokens)) \div (Len(all_tokens) + Count(all_tokens, t))]

\* the candidates of extract_anchors: <<score, idx, token>>, idx counting from 0
AnchorCandidates(tokens, idf) ==
    {<<IF IsDigit(tokens[i][1])
       THEN (IF tokens[i] \in DOMAIN idf THEN idf[tokens[i]] ELSE Micro) + Micro
       ELSE (IF tokens[i] \in DOMAIN idf THEN idf[tokens[i]] ELSE 500000),
       i - 1, tokens[i]>> :
        i \in {k \in DOMAIN tokens :
                 /\ MapSeq(tokens[k], ToLower) \notin stopwords
                 /\ (IsDigit(tokens[k][1]) \/ Len(tokens[k]) >= 5)}}

\* the sequence of the elements of a set of tuples, by increasing f[2]
RECURSIVE SortByPosition(_)
SortByPosition(S) ==
    IF S = {} THEN <<>>
    ELSE LET first == CHOOSE x \in S : \A y \in S : x[2] <= y[2]
         IN  <<first>> \o SortByPosition(S \ {first})

\* extract_anchors: the max_anchors best candidates by (score, idx) descending,
\* returned as <<idx, token>> by increasing idx
extract_anchors(tokens, idf, max_anchors) ==
    LET cands == AnchorCandidates(tokens, idf)
        Before(x, y) == x[1] > y[1] \/ (x[1] = y[1] /\ x[2] > y[2])
        top   == {x \in cands : Cardinality({y \in cands : Before(y, x)}) < max_anchors}
    IN  [i \in DOMAIN SortByPosition(top) |->
            <<SortByPosition(top)[i][2], SortByPosition(top)[i][3]>>]

(***************************************************************************)
(* SentenceAligner._search_for_span and _align_single_sentence.            *)
(* Word indices count from 0, as in the source.                            *)
(***************************************************************************)
\* _search_for_span found no candidate
NoSpan == [found |-> FALSE, start_idx |-> -1, end_idx |-> -1, score |-> 0]

\* the positions of the first 500 words of the window that hold an anchor
AnchorPositions(anchors, cur, search_end, nwords) ==
    IF anchors = <<>> THEN {}
    ELSE {i \in cur..(Min(cur + 500, search_end) - 1) :
            LET word_tok == tokenize(nwords[i + 1])
            IN  /\ word_tok # <<>>
                /\ \E a \in DOMAIN anchors : tokenize(anchors[a][2])[1] \in Range(word_tok)}

SetMin(S) == CHOOSE x \in S : \A y \in S : x <= y

SetMax(S) == CHOOSE x \in S : \A y \in S : x >= y

\* SearchWindow with the cursor ignored: the window starts at the first word
SearchWindowFromZero(anchors, cur, cfg, nwords) ==
    LET N         == Len(nwords)
        end0      == Min(N, cfg.window_tokens)
        positions == AnchorPositions(anchors, 0, end0, nwords)
    IN  IF positions # {}
        THEN [search_start |-> Max(0, SetMin(positions) - 50),
              search_end   |-> Min(N, SetMax(positions) + 150)]
        ELSE [search_start |-> 0, search_end |-> end0]

\* the window [search_start, search_end) that _search_for_span enumerates
SearchWindow(anchors, cur, cfg, nwords) ==
    LET N         == Len(nwords)
        end0      == Min(N, cur + cfg.window_tokens)
        positions == AnchorPositions(anchors, cur, end0, nwords)
    IN  IF positions # {}
        THEN [search_start |-> Max(cur, SetMin(positions) - 50),
              search_end   |-> Min(N, SetMax(positions) + 150)]
        ELSE [search_start |-> cur, search_end |-> end0]

\* every candidate span _search_for_span scores
CandidatesIn(w, sent_tokens, anchors, elastic_gap, cfg, nwords) ==
    LET N  == Len(nwords)
        starts == {s \in w.search_start..(w.search_end - 1) :
                     \/ tokens_match(sent_tokens[1], nwords[s + 1],
                                     cfg.token_ratio_cutoff)
                     \/ \E a \in DOMAIN anchors :
                          tokens_match(anchors[a][2], nwords[s + 1],
                                       cfg.token_ratio_cutoff)}
    IN  UNION {
          LET expected_end == s + Len(sent_tokens) - 1
          IN  {score_span(sent_tokens, s, e, anchors, cfg, nwords) :
                 e \in {x \in Max(s, expected_end - elastic_gap)
                              ..(Min(w.search_end, expected_end + elastic_gap + 1) - 1) :
                          x < N}} :
          s \in starts}

Candidates(sent_tokens, anchors, cur, elastic_gap, cfg, nwords) ==
    CandidatesIn(SearchWindow(anchors, cur, cfg, nwords),
                 sent_tokens, anchors, elastic_gap, cfg, nwords)

\* BestCandidate of a loop that replaces the best candidate on an equal score:
\* the last one, in the order (start_idx, end_idx), whose total_score is the largest
LastBestCandidate(cands) ==
    LET Beats(c, d) == \/ c.total_score > d.total_score
                       \/ /\ c.total_score = d.total_score
                          /\ \/ c.start_idx > d.start_idx
                             \/ c.start_idx = d.start_idx /\ c.end_idx >= d.end_idx
    IN  IF cands = {} THEN NoSpan
        ELSE LET best == CHOOSE c \in cands : \A d \in cands : Beats(c, d)
             IN  [found |-> TRUE, start_idx |-> best.start_idx, end_idx |-> best.end_idx,
                  score |-> best.total_score]

\* the candidate the loop keeps: the first one, in the order (start_idx, end_idx),
\* whose total_score is the largest and above the initial best_score of -1.0
BestCandidate(cands) ==
    LET Beats(c, d) == \/ c.total_score > d.total_score
                       \/ /\ c.total_score = d.total_score
                          /\ \/ c.start_idx < d.start_idx
                             \/ c.start_idx = d.start_idx /\ c.end_idx <= d.end_idx
    IN  IF cands = {} THEN NoSpan
        ELSE LET best == CHOOSE c \in cands : \A d \in cands : Beats(c, d)
             IN  [found |-> TRUE, start_idx |-> best.start_idx, end_idx |-> best.end_idx,
                  score |-> best.total_score]

search_for_span(sent_tokens, anchors, cur, elastic_gap, cfg, nwords) ==
    BestCandidate({c \in Candidates(sent_tokens, anchors, cur, elastic_gap,
                                    cfg, nwords) : c.total_score > -Micro})

\* the configuration of the fallback pass: a fresh AlignmentConfig with three
\* fields set from the aligner's configuration
FallbackConfig(cfg) ==
    [AlignmentConfig EXCEPT
        !.window_tokens      = cfg.window_tokens + cfg.fallback_expand_window,
        !.elastic_gap        = cfg.fallback_elastic_gap,
        !.token_ratio_cutoff = cfg.fallback_token_ratio]

\* the strict pass of _align_single_sentence
StrictPass(sent_tokens, anchors, cur, cfg, nwords) ==
    search_for_span(sent_tokens, anchors, cur, cfg.elastic_gap, cfg,
                    nwords)

\* the fallback pass of _align_single_sentence
FallbackPass(sent_tokens, anchors, cur, cfg, nwords) ==
    search_for_span(sent_tokens, anchors, cur, FallbackConfig(cfg).elastic_gap,
                    FallbackConfig(cfg), nwords)

\* StrictStatus without the lower threshold: every span found is accepted
StrictStatusLenient(res, cfg) ==
    IF res.found /\ res.score >= cfg.min_accept THEN "ok"
    ELSE IF res.found THEN "warning"
    ELSE "none"

\* the status _align_single_sentence gives the strict pass's result
StrictStatus(res, cfg) ==
    IF res.found /\ res.score >= cfg.min_accept THEN "ok"
    ELSE IF res.found /\ res.score >= cfg.warn_accept THEN "warning"
    ELSE "none"

\* FallbackAccepted without the threshold: every span found is accepted
FallbackAcceptedAlways(res, cfg) == res.found

\* whether _align_single_sentence accepts the fallback pass's result
FallbackAccepted(res, cfg) ==
    res.found /\ res.score >= cfg.warn_accept

\* what _align_single_sentence returns (aligned = FALSE for None), together with
\* the results of the passes it ran and the aligner's self.config afterwards
Outcome(pass, status, strict, fallback_ran, relaxed, cfg_after) ==
    [aligned |-> status # "none", start_idx |-> pass.start_idx, end_idx |-> pass.end_idx,
     score |-> pass.score, status |-> status,
     strict |-> strict, fallback_ran |-> fallback_ran, relaxed |-> relaxed,
     config_after |-> cfg_after]

\* RestoredConfig of an aligner that keeps config_fallback as its self.config
ConfigLeftAtFallback(old_config, config_fallback) == config_fallback

\* self.config after the fallback pass: self.config = old_config
RestoredConfig(old_config, config_fallback) == old_config

\* Phase 2 of _align_single_sentence, given the results of both passes and
\* self.config as it is after the fallback pass
AfterFallback(result, result_fb, cfg_after) ==
    IF FallbackAccepted(result_fb, cfg_after)
    THEN Outcome(result_fb, "fallback", result, TRUE, result_fb, cfg_after)
    ELSE Outcome(NoSpan, "none", result, TRUE, result_fb, cfg_after)

\* _align_single_sentence after Phase 1 returned result with the given status
AfterStrict(result, status, sent_tokens, anchors, cur, cfg, nwords) ==
    IF status # "none"
    THEN Outcome(result, status, result, FALSE, NoSpan, cfg)
    ELSE AfterFallback(result,
                       FallbackPass(sent_tokens, anchors, cur, cfg, nwords),
                       RestoredConfig(cfg, FallbackConfig(cfg)))

\* the decision of Phase 1 on the strict pass's result
DecideStrict(result, sent_tokens, anchors, cur, cfg, nwords) ==
    AfterStrict(result, StrictStatus(result, cfg), sent_tokens, anchors, cur, cfg, nwords)

align_single_sentence(sent_tokens, anchors, cur, cfg, nwords) ==
    DecideStrict(StrictPass(sent_tokens, anchors, cur, cfg, nwords),
                 sent_tokens, anchors, cur, cfg, nwords)

(***************************************************************************)
(* Inputs: transcriptions (words with times in ms), canonical sentences,   *)
(* configurations and manual adjustments.                                  *)
(***************************************************************************)
\* the longest sentence list given to a build
MaxSentences == 3

\* the transcription of the exact-match scenario
WordsSea ==
    <<[text |-> <<"t","h","e">>, start |-> 0, end |-> 100],
      [text |-> <<"s","e","a">>, start |-> 100, end |-> 500],
      [text |-> <<"i","s">>, start |-> 500, end |-> 600],
      [text |-> <<"d","e","e","p">>, start |-> 600, end |-> 900]>>

WordsOcean ==
    <<[text |-> <<"T","h","e">>, start |-> 0, end |-> 100],
      [text |-> <<"o","c","e","a","n">>, start |-> 100, end |-> 500],
      [text |-> <<"i","s">>, start |-> 500, end |-> 600],
      [text |-> <<"d","e","e","p",".">>, start |-> 600, end |-> 900],
      [text |-> <<"T","h","e">>, start |-> 1200, end |-> 1300],
      [text |-> <<"i","c","e">>, start |-> 1300, end |-> 1600],
      [text |-> <<"b","r","e","a","k","e","r",".">>, start |-> 1600, end |-> 2100]>>

TranscriptionList == <<WordsSea, WordsOcean>>

Transcriptions == Range(TranscriptionList)

SentenceSea == <<"T","h","e"," ","s","e","a"," ","i","s"," ","d","e","e","p",".">>

SentenceOcean == <<"T","h","e"," ","o","c","e","a","n"," ","i","s"," ","d","e","e","p",".">>

SentenceOceans == <<"T","h","e"," ","o","c","e","a","n","s"," ","i","s"," ","d","e","e","p",".">>

SentenceIce == <<"T","h","e"," ","i","c","e","-","b","r","e","a","k","e","r",".">>

SentenceEmpty == <<".",".",".">>

SentenceList == <<SentenceSea, SentenceOcean, SentenceOceans, SentenceIce, SentenceEmpty>>

SentencePool == Range(SentenceList)

SentenceLists == UNION {[1..n -> SentencePool] : n \in 1..MaxSentences}

\* the AlignmentConfig values a build is run with
ConfigList == <<AlignmentConfig>>

Configs == Range(ConfigList)

PadValues == {0, 100}

\* the longest sentence list given to a build that uses the LLM aligner
MaxLLMSentences == 2

LLMSentencePool == {SentenceOcean, SentenceIce}

LLMSentenceLists == UNION {[1..n -> LLMSentencePool] : n \in 1..MaxLLMSentences}

\* GrokAlignerConfig: the fields that shape the control flow
GrokAlignerConfig == [max_workers |-> 5, max_retries |-> 3]

\* the values config['grok'] sets them to
GrokConfigs == {[max_workers |-> 1, max_retries |-> 2],
                [max_workers |-> 2, max_retries |-> 1]}

\* what the model may answer: start_ms, end_ms, confidence in hundredths; the
\* schema AlignmentResponse demands start_ms >= 0, end_ms >= 0 and
\* 0 <= confidence <= 1, and nothing else
Responses == {[start_ms |-> 50, end_ms |-> 900, confidence |-> 95],
              [start_ms |-> 1200, end_ms |-> 2100, confidence |-> 80],
              [start_ms |-> 900, end_ms |-> 50, confidence |-> 95]}

\* (sentence_idx, start_ms, end_ms) lists a caller may pass to build
AdjustmentLists ==
    {<<>>,
     <<[sentence_idx |-> 1, start_ms |-> 1000, end_ms |-> 5000]>>,
     <<[sentence_idx |-> 2, start_ms |-> 200, end_ms |-> 700]>>,
     <<[sentence_idx |-> 1, start_ms |-> 5000, end_ms |-> 1000]>>,
     <<[sentence_idx |-> 1, start_ms |-> -100, end_ms |-> 500]>>,
     <<[sentence_idx |-> 1, start_ms |-> 300, end_ms |-> 300],
       [sentence_idx |-> 2, start_ms |-> 200, end_ms |-> 700]>>,
     <<[sentence_idx |-> 0, start_ms |-> 100, end_ms |-> 200],
       [sentence_idx |-> MaxSentences + 1, start_ms |-> 100, end_ms |-> 200]>>}

\* Python's None in a span list
NoneSpan == <<>>

VARIABLES
    words,              \* the transcription's words
    sentences,          \* the canonical sentences
    method,             \* config['alignment']['method']
    config,             \* the AlignmentConfig built from config['alignment']
    pad_ms,             \* config['pad_ms']
    pc,                 \* the position of build
    normalized_words,   \* SentenceAligner.normalized_words
    idf_scores,         \* SentenceAligner.idf_scores
    l_sentences,        \* the sentences given to SentenceAligner.align_sentences
    l_spans,            \* its spans
    l_report,           \* its report
    cursor,             \* its monotonicity cursor
    l_trace,            \* per sentence processed: the cursor it searched from and the outcome
    self_config,        \* SentenceAligner.config
    call_no,            \* which call of align_sentences on the instance this is
    first_call,         \* what the first call on the instance returned
    sentence_spans,     \* build's sentence_spans
    aligner_report,     \* build's aligner_report
    computed_spans,     \* sentence_spans as _perform_alignment returned them
    manual_adjustments, \* build's manual_adjustments argument
    manifest,           \* the sentences of the final manifest
    grok_env,           \* "ok", "unavailable" (GROK_AVAILABLE is False) or "no_key"
    grok_config,        \* the GrokAlignerConfig built from config['grok']
    g_task,             \* per sentence: the future of its _align_single_sentence call
    g_spans,            \* GrokAligner.align_sentences' spans
    g_report,           \* its report
    failed_indices,     \* _perform_alignment's failed_indices (hybrid), from 0
    fn_call,            \* a function of the pipeline called on its own: its name and arguments
    fn_returned         \* the values that function has returned so far

vars == <<words, sentences, method, config, pad_ms, pc, normalized_words, idf_scores,
          l_sentences, l_spans, l_report, cursor, l_trace, self_config, call_no,
          first_call, sentence_spans,
          aligner_report, computed_spans, manual_adjustments, manifest,
          grok_env, grok_config, g_task, g_spans, g_report, failed_indices,
          fn_call, fn_returned>>

inputs == <<words, sentences, method, config, pad_ms, grok_env, grok_config>>

grok_vars == <<g_task, g_spans, g_report, failed_indices>>

fn_vars == <<fn_call, fn_returned>>

local_vars == <<normalized_words, idf_scores, l_sentences, l_spans, l_report, cursor, l_trace,
                self_config, call_no, first_call>>

EmptyReport(num) ==
    [num_sentences |-> num, aligned |-> 0, unaligned |-> 0, warnings |-> 0,
     details |-> <<>>, methods |-> [grok |-> 0, fuzzy |-> 0]]

\* one entry of report["details"]; has_score tells whether the entry has a "score"
Detail(idx, status, has_score, score) ==
    [idx |-> idx, status |-> status, has_score |-> has_score, score |-> score,
     method |-> "none"]

\* no function is called on its own
NoCall == [fn |-> "none", args |-> <<>>]

\* a future of the executor: its state, the API calls made, and its outcome
\* ("none" for None, "ok" for a tuple, "raised" for an exception); overdue
\* tells whether the API call in progress has been waiting for longer than
\* GrokAlignerConfig.timeout
Future(state, attempts, kind, start_ms, end_ms, confidence) ==
    [state |-> state, attempts |-> attempts, kind |-> kind,
     start_ms |-> start_ms, end_ms |-> end_ms, confidence |-> confidence,
     overdue |-> FALSE]

Init ==
    /\ \/ /\ method = "fuzzy"
          /\ words \in Transcriptions
          /\ sentences \in SentenceLists
          /\ pad_ms \in PadValues
          /\ grok_env = "ok"
          /\ grok_config = GrokAlignerConfig
       \/ /\ method \in {"grok", "hybrid"}
          /\ words = WordsOcean
          /\ sentences \in LLMSentenceLists
          /\ pad_ms = 100
          /\ grok_env \in {"ok", "unavailable", "no_key"}
          /\ grok_config \in GrokConfigs
    /\ config \in Configs
    /\ pc = "perform_alignment"
    /\ normalized_words = <<>>
    /\ idf_scores = <<>>
    /\ l_sentences = <<>>
    /\ l_spans = <<>>
    /\ l_report = EmptyReport(0)
    /\ cursor = 0
    /\ l_trace = <<>>
    /\ self_config = config
    /\ call_no = 0
    /\ first_call = <<>>
    /\ sentence_spans = <<>>
    /\ aligner_report = EmptyReport(0)
    /\ computed_spans = <<>>
    /\ manual_adjustments = <<>>
    /\ manifest = <<>>
    /\ g_task = <<>>
    /\ g_spans = <<>>
    /\ g_report = EmptyReport(0)
    /\ failed_indices = <<>>
    /\ fn_call = NoCall
    /\ fn_returned = <<>>

(***************************************************************************)
(* SentenceAligner (pipeline/alignment.py)                                 *)
(***************************************************************************)
\* SentenceAligner.__init__: the words normalised
NormalizedWords(w) == [i \in DOMAIN w |-> normalize_token(w[i].text)]

\* SentenceAligner.__init__: the IDF scores of the transcript
IdfScores(w) == compute_token_idf(AllTokens(NormalizedWords(w)))

\* the loop body of align_sentences up to the result of _align_single_sentence,
\* for an aligner built over w with configuration cfg whose cursor is c
SentenceOutcome(w, sentence, c, cfg) ==
    LET sent_tokens == tokenize(sentence)
    IN  IF sent_tokens = <<>>
        THEN [empty |-> TRUE, tokens |-> sent_tokens,
              res   |-> Outcome(NoSpan, "none", NoSpan, FALSE, NoSpan, cfg)]
        ELSE [empty |-> FALSE, tokens |-> sent_tokens,
              res   |-> align_single_sentence(sent_tokens,
                            extract_anchors(sent_tokens, IdfScores(w), 3),
                            c, cfg, NormalizedWords(w))]

IndexOf(seq, x) == CHOOSE i \in DOMAIN seq : seq[i] = x

\* SentenceOutcome over the inputs, computed once
OutcomeTable ==
    [t \in 1..Len(TranscriptionList) |->
      [s \in 1..Len(SentenceList) |->
        [c \in 1..(Len(TranscriptionList[t]) + 1) |->
          [g \in 1..Len(ConfigList) |->
             SentenceOutcome(TranscriptionList[t], SentenceList[s], c - 1, ConfigList[g])]]]]

\* SentenceOutcome(w, sentence, c, cfg): the entry of OutcomeTable when cfg is
\* one of the configurations of ConfigList and c a position of the table
TableOutcome(w, sentence, c, cfg) ==
    IF cfg \in Range(ConfigList) /\ c <= Len(w)
    THEN OutcomeTable[IndexOf(TranscriptionList, w)][IndexOf(SentenceList, sentence)][c + 1]
                     [IndexOf(ConfigList, cfg)]
    ELSE SentenceOutcome(w, sentence, c, cfg)

\* SentenceAligner.__init__ followed by the first lines of align_sentences
ConstructAligner(sents) ==
    /\ normalized_words' = NormalizedWords(words)
    /\ idf_scores' = IdfScores(words)
    /\ l_sentences' = sents
    /\ l_spans' = <<>>
    /\ l_report' = EmptyReport(Len(sents))
    /\ cursor' = 0
    /\ l_trace' = <<>>
    /\ self_config' = config
    /\ call_no' = 1
    /\ first_call' = <<>>

\* the record of one iteration, kept for the properties: the sentence, its
\* tokens, the cursor it was searched from and what _align_single_sentence returned
TraceEntry(sentence, from, out) ==
    [sentence |-> sentence, tokens |-> out.tokens, cursor |-> from,
     empty |-> out.empty, res |-> out.res]

\* the entry align_sentences of an aligner over w appends to spans
SpanIn(w, out, pad) ==
    IF out.empty \/ ~out.res.aligned THEN NoneSpan
    ELSE <<Max(0, w[out.res.start_idx + 1].start - pad),
           w[out.res.end_idx + 1].end + pad>>

\* the entry align_sentences appends to spans
SpanOf(out, pad) == SpanIn(words, out, pad)

\* NextCursor that steps over a failed sentence's position
NextCursorAdvancing(from, out) ==
    IF out.empty \/ ~out.res.aligned THEN from + 1 ELSE out.res.end_idx + 1

\* the cursor after the iteration
NextCursor(from, out) ==
    IF out.empty \/ ~out.res.aligned THEN from ELSE out.res.end_idx + 1

\* NextReport that counts a sentence accepted with a warning or by the fallback
\* as aligned only
NextReportAlignedOnly(report, idx, out) ==
    IF out.empty
    THEN [report EXCEPT !.details = Append(@, Detail(idx, "empty", FALSE, 0)),
                        !.unaligned = @ + 1]
    ELSE IF ~out.res.aligned
    THEN [report EXCEPT !.details = Append(@, Detail(idx, "failed", TRUE, 0)),
                        !.unaligned = @ + 1]
    ELSE IF out.res.status = "ok"
    THEN [report EXCEPT !.aligned = @ + 1]
    ELSE [report EXCEPT !.aligned = @ + 1,
                        !.details = Append(@, Detail(idx, out.res.status, TRUE,
                                                     out.res.score))]

\* the report after the iteration
NextReport(report, idx, out) ==
    IF out.empty
    THEN [report EXCEPT !.details = Append(@, Detail(idx, "empty", FALSE, 0)),
                        !.unaligned = @ + 1]
    ELSE IF ~out.res.aligned
    THEN [report EXCEPT !.details = Append(@, Detail(idx, "failed", TRUE, 0)),
                        !.unaligned = @ + 1]
    ELSE IF out.res.status = "ok"
    THEN [report EXCEPT !.aligned = @ + 1]
    ELSE [report EXCEPT !.aligned = @ + 1,
                        !.warnings = @ + 1,
                        !.details = Append(@, Detail(idx, out.res.status, TRUE,
                                                     out.res.score))]

\* one iteration of the loop of align_sentences
LoopBody(idx, sentence, out) ==
    /\ l_trace' = Append(l_trace, TraceEntry(sentence, cursor, out))
    /\ l_spans' = Append(l_spans, SpanOf(out, pad_ms))
    /\ cursor' = NextCursor(cursor, out)
    /\ l_report' = NextReport(l_report, idx, out)
    /\ self_config' = out.res.config_after

\* the next iteration of the loop of align_sentences
AlignNextSentence ==
    /\ pc = "local_loop"
    /\ Len(l_spans) < Len(l_sentences)
    /\ LoopBody(Len(l_spans) + 1, l_sentences[Len(l_spans) + 1],
                TableOutcome(words, l_sentences[Len(l_spans) + 1], cursor, self_config))
    /\ UNCHANGED <<inputs, fn_vars, pc, normalized_words, idf_scores, l_sentences, call_no,
                   first_call, sentence_spans, aligner_report, computed_spans,
                   manual_adjustments, manifest, grok_vars>>

\* align_sentences has returned and is called once more on the same instance,
\* with the same sentences and pad_ms: report, spans and cursor start afresh
AlignAgain ==
    /\ pc = "local_loop"
    /\ Len(l_spans) = Len(l_sentences)
    /\ call_no = 1
    /\ first_call' = <<l_spans, l_report>>
    /\ call_no' = 2
    /\ l_spans' = <<>>
    /\ l_report' = EmptyReport(Len(l_sentences))
    /\ cursor' = 0
    /\ l_trace' = <<>>
    /\ UNCHANGED <<inputs, fn_vars, pc, normalized_words, idf_scores, l_sentences, self_config,
                   sentence_spans, aligner_report, computed_spans, manual_adjustments,
                   manifest, grok_vars>>

(***************************************************************************)
(* GrokAligner (pipeline/grok_alignment.py)                                *)
(***************************************************************************)
Queued == Future("queued", 0, "none", 0, 0, 0)

\* GrokAligner.__init__ and align_sentences up to the submission of every task
SubmitAll ==
    /\ g_task' = [i \in DOMAIN sentences |-> Queued]
    /\ g_spans' = [i \in DOMAIN sentences |-> NoneSpan]
    /\ g_report' = EmptyReport(Len(sentences))
    /\ failed_indices' = <<>>

Running == {i \in DOMAIN g_task : g_task[i].state = "running"}

\* WorkerAvailable of an executor that starts a thread for every task
WorkerAlwaysAvailable == TRUE

\* ThreadPoolExecutor(max_workers): a thread is free, or can still be started
WorkerAvailable == Cardinality(Running) < grok_config.max_workers

\* a free worker thread of the executor takes the oldest queued task
WorkerTakesTask(i) ==
    /\ pc = "grok_run"
    /\ g_task[i].state = "queued"
    /\ \A j \in DOMAIN g_task : j < i => g_task[j].state # "queued"
    /\ WorkerAvailable
    /\ g_task' = [g_task EXCEPT ![i].state = "running"]
    /\ UNCHANGED <<inputs, fn_vars, pc, local_vars, sentence_spans, aligner_report, computed_spans,
                   manual_adjustments, manifest, g_spans, g_report, failed_indices>>

\* one iteration of the retry loop of _align_single_sentence whose API call
\* returns a parsed AlignmentResponse
ApiCallParsed(i) ==
    /\ pc = "grok_run"
    /\ g_task[i].state = "running"
    /\ g_task[i].attempts < grok_config.max_retries
    /\ \E alignment \in Responses :
         g_task' = [g_task EXCEPT ![i] =
                       Future("done", g_task[i].attempts + 1, "ok",
                              Max(0, alignment.start_ms - pad_ms),
                              alignment.end_ms + pad_ms, alignment.confidence)]
    /\ UNCHANGED <<inputs, fn_vars, pc, local_vars, sentence_spans, aligner_report, computed_spans,
                   manual_adjustments, manifest, g_spans, g_report, failed_indices>>

\* ... whose API call returns no parsed object: None without another attempt
ApiCallUnparsed(i) ==
    /\ pc = "grok_run"
    /\ g_task[i].state = "running"
    /\ g_task[i].attempts < grok_config.max_retries
    /\ g_task' = [g_task EXCEPT ![i] =
                     Future("done", g_task[i].attempts + 1, "none", 0, 0, 0)]
    /\ UNCHANGED <<inputs, fn_vars, pc, local_vars, sentence_spans, aligner_report, computed_spans,
                   manual_adjustments, manifest, g_spans, g_report, failed_indices>>

\* ... whose API call raises: sleep and continue, or None after the last attempt
ApiCallFails(i) ==
    /\ pc = "grok_run"
    /\ g_task[i].state = "running"
    /\ g_task[i].attempts < grok_config.max_retries
    /\ g_task' = [g_task EXCEPT ![i] =
                     IF g_task[i].attempts < grok_config.max_retries - 1
                     THEN Future("running", g_task[i].attempts + 1, "none", 0, 0, 0)
                     ELSE Future("done", g_task[i].attempts + 1, "none", 0, 0, 0)]
    /\ UNCHANGED <<inputs, fn_vars, pc, local_vars, sentence_spans, aligner_report, computed_spans,
                   manual_adjustments, manifest, g_spans, g_report, failed_indices>>

\* the API call in progress has not answered within GrokAlignerConfig.timeout:
\* the timeout is passed neither to the client nor to the call, and neither
\* future.result() nor as_completed has one, so the call goes on waiting
RequestOverdue(i) ==
    /\ pc = "grok_run"
    /\ g_task[i].state = "running"
    /\ g_task[i].attempts < grok_config.max_retries
    /\ ~g_task[i].overdue
    /\ g_task' = [g_task EXCEPT ![i].overdue = TRUE]
    /\ UNCHANGED <<inputs, fn_vars, pc, local_vars, sentence_spans, aligner_report, computed_spans,
                   manual_adjustments, manifest, g_spans, g_report, failed_indices>>

\* an exception leaves _align_single_sentence (raised outside its try block or
\* inside its handler): the future holds the exception
WorkerRaises(i) ==
    /\ pc = "grok_run"
    /\ g_task[i].state = "running"
    /\ g_task' = [g_task EXCEPT ![i] =
                     Future("done", g_task[i].attempts, "raised", 0, 0, 0)]
    /\ UNCHANGED <<inputs, fn_vars, pc, local_vars, sentence_spans, aligner_report, computed_spans,
                   manual_adjustments, manifest, g_spans, g_report, failed_indices>>

\* StoreSpan that fills the list in the order of completion
StoreSpanInCompletionOrder(spans, idx, span) ==
    [spans EXCEPT ![SetMin({j \in DOMAIN spans : spans[j] = NoneSpan})] = span]

\* spans[idx - 1] = (start_ms, end_ms)
StoreSpan(spans, idx, span) == [spans EXCEPT ![idx] = span]

\* one iteration of the loop over as_completed
Collect(i) ==
    /\ pc = "grok_run"
    /\ g_task[i].state = "done"
    /\ g_task' = [g_task EXCEPT ![i].state = "collected"]
    /\ IF g_task[i].kind = "raised"
       THEN /\ g_report' = [g_report EXCEPT
                               !.details = Append(@, Detail(i, "error", FALSE, 0)),
                               !.unaligned = @ + 1]
            /\ g_spans' = g_spans
       ELSE IF g_task[i].kind = "none"
       THEN /\ g_report' = [g_report EXCEPT
                               !.details = Append(@, Detail(i, "failed", FALSE, 0)),
                               !.unaligned = @ + 1]
            /\ g_spans' = g_spans
       ELSE /\ g_spans' = StoreSpan(g_spans, i, <<g_task[i].start_ms, g_task[i].end_ms>>)
            /\ g_report' = IF g_task[i].confidence < 90
                           THEN [g_report EXCEPT
                                    !.aligned = @ + 1,
                                    !.warnings = @ + 1,
                                    !.details = Append(@, Detail(i, "warning", FALSE, 0))]
                           ELSE [g_report EXCEPT !.aligned = @ + 1]
    /\ UNCHANGED <<inputs, fn_vars, pc, local_vars, sentence_spans, aligner_report, computed_spans,
                   manual_adjustments, manifest, failed_indices>>

AllCollected == \A i \in DOMAIN g_task : g_task[i].state = "collected"

(***************************************************************************)
(* DictationBuilder._perform_alignment (pipeline/builder.py)               *)
(***************************************************************************)
TagDetails(details, m) == [i \in DOMAIN details |-> [details[i] EXCEPT !.method = m]]

\* method 'grok' without the Grok module: RuntimeError
GrokNotAvailable ==
    /\ pc = "perform_alignment"
    /\ method = "grok"
    /\ grok_env = "unavailable"
    /\ pc' = "raised_grok_not_available"
    /\ UNCHANGED <<inputs, fn_vars, local_vars, sentence_spans, aligner_report, computed_spans,
                   manual_adjustments, manifest, grok_vars>>

\* GrokAligner.__init__ without an API key: ValueError
GrokWithoutKey ==
    /\ pc = "perform_alignment"
    /\ method \in {"grok", "hybrid"}
    /\ grok_env = "no_key"
    /\ pc' = "raised_no_api_key"
    /\ UNCHANGED <<inputs, fn_vars, local_vars, sentence_spans, aligner_report, computed_spans,
                   manual_adjustments, manifest, grok_vars>>

\* the branches 'grok' and 'hybrid' call align_sentences_with_grok
StartGrok ==
    /\ pc = "perform_alignment"
    /\ method \in {"grok", "hybrid"}
    /\ grok_env = "ok"
    /\ SubmitAll
    /\ pc' = "grok_run"
    /\ UNCHANGED <<inputs, fn_vars, local_vars, sentence_spans, aligner_report, computed_spans,
                   manual_adjustments, manifest>>

\* the branch 'grok' after align_sentences_with_grok returned
FinishGrok ==
    /\ pc = "grok_run"
    /\ method = "grok"
    /\ AllCollected
    /\ sentence_spans' = g_spans
    /\ computed_spans' = g_spans
    /\ aligner_report' = [g_report EXCEPT
                             !.details = TagDetails(@, "grok"),
                             !.methods = [grok |-> g_report.aligned, fuzzy |-> 0]]
    /\ pc' = "adjust"
    /\ UNCHANGED <<inputs, fn_vars, local_vars, manual_adjustments, manifest, grok_vars>>

\* [i for i, span in enumerate(spans) if span is None]
RECURSIVE NoneIndices(_, _)
NoneIndices(spans, i) ==
    IF i > Len(spans) THEN <<>>
    ELSE (IF spans[i] = NoneSpan THEN <<i - 1>> ELSE <<>>) \o NoneIndices(spans, i + 1)

\* the branch 'hybrid' after align_sentences_with_grok returned: the Grok result
\* when nothing failed, else the fuzzy aligner over the failed sentences
HybridAfterGrok ==
    /\ pc = "grok_run"
    /\ method = "hybrid"
    /\ AllCollected
    /\ LET failed == NoneIndices(g_spans, 1)
       IN  IF failed = <<>>
           THEN /\ sentence_spans' = g_spans
                /\ computed_spans' = g_spans
                /\ aligner_report' = [g_report EXCEPT
                                         !.details = TagDetails(@, "grok"),
                                         !.methods = [grok |-> g_report.aligned, fuzzy |-> 0]]
                /\ pc' = "adjust"
                /\ UNCHANGED <<local_vars, failed_indices>>
           ELSE /\ failed_indices' = failed
                /\ ConstructAligner([i \in DOMAIN failed |-> sentences[failed[i] + 1]])
                /\ pc' = "local_loop"
                /\ UNCHANGED <<sentence_spans, computed_spans, aligner_report>>
    /\ UNCHANGED <<inputs, fn_vars, manual_adjustments, manifest, g_task, g_spans, g_report>>

\* the number of spans that are not None
CountSpans(spans) == Cardinality({i \in DOMAIN spans : spans[i] # NoneSpan})

\* MergeSpans that writes fuzzy_spans[i] to position i
MergeSpansByPosition(grok_spans, fuzzy_spans, failed) ==
    [k \in DOMAIN grok_spans |->
        IF k \in DOMAIN fuzzy_spans THEN fuzzy_spans[k] ELSE grok_spans[k]]

\* final_spans: grok_spans with fuzzy_spans[i] at failed_indices[i]
MergeSpans(grok_spans, fuzzy_spans, failed) ==
    [k \in DOMAIN grok_spans |->
        IF \E i \in DOMAIN failed : failed[i] + 1 = k
        THEN fuzzy_spans[CHOOSE i \in DOMAIN failed : failed[i] + 1 = k]
        ELSE grok_spans[k]]

\* the fuzzy details tagged, with idx mapped back to the original sentence list
RemapDetails(details, failed) ==
    [i \in DOMAIN details |->
        [details[i] EXCEPT !.method = "fuzzy", !.idx = failed[details[i].idx] + 1]]

\* the branch 'hybrid' after the fuzzy aligner returned: results and reports merged
FinishHybrid ==
    /\ pc = "local_loop"
    /\ method = "hybrid"
    /\ grok_env = "ok"
    /\ Len(l_spans) = Len(l_sentences)
    /\ call_no = 1
    /\ LET final_spans == MergeSpans(g_spans, l_spans, failed_indices)
       IN  /\ sentence_spans' = final_spans
           /\ computed_spans' = final_spans
           /\ aligner_report' =
                 [num_sentences |-> Len(sentences),
                  aligned   |-> CountSpans(final_spans),
                  unaligned |-> Len(final_spans) - CountSpans(final_spans),
                  warnings  |-> g_report.warnings + l_report.warnings,
                  details   |-> TagDetails(g_report.details, "grok")
                                \o RemapDetails(l_report.details, failed_indices),
                  methods   |-> [grok |-> g_report.aligned, fuzzy |-> CountSpans(l_spans)]]
    /\ pc' = "adjust"
    /\ UNCHANGED <<inputs, fn_vars, local_vars, manual_adjustments, manifest, grok_vars>>

\* whether _perform_alignment takes the branch "Fuzzy matching only"
FuzzyOnly == method = "fuzzy" \/ (method = "hybrid" /\ grok_env = "unavailable")

\* the branch "Fuzzy matching only": the aligner is built and run
StartFuzzy ==
    /\ pc = "perform_alignment"
    /\ FuzzyOnly
    /\ ConstructAligner(sentences)
    /\ pc' = "local_loop"
    /\ UNCHANGED <<inputs, fn_vars, sentence_spans, aligner_report, computed_spans,
                   manual_adjustments, manifest, grok_vars>>

\* align_sentences returns; the details are tagged and the method counts added
FinishFuzzy ==
    /\ pc = "local_loop"
    /\ FuzzyOnly
    /\ Len(l_spans) = Len(l_sentences)
    /\ call_no = 1
    /\ sentence_spans' = l_spans
    /\ computed_spans' = l_spans
    /\ aligner_report' = [l_report EXCEPT
                             !.details = TagDetails(@, "fuzzy"),
                             !.methods = [grok |-> 0, fuzzy |-> l_report.aligned]]
    /\ pc' = "adjust"
    /\ UNCHANGED <<inputs, fn_vars, local_vars, manual_adjustments, manifest, grok_vars>>

(***************************************************************************)
(* DictationBuilder.build (pipeline/builder.py), after the alignment       *)
(***************************************************************************)
\* the loop "Apply manual adjustments": each adjustment in turn
RECURSIVE ApplyAdjustments(_, _)
ApplyAdjustments(spans, adjs) ==
    IF adjs = <<>> THEN spans
    ELSE LET adj == Head(adjs)
         IN  ApplyAdjustments(
                 IF 1 <= adj.sentence_idx /\ adj.sentence_idx <= Len(spans)
                 THEN [spans EXCEPT ![adj.sentence_idx] = <<adj.start_ms, adj.end_ms>>]
                 ELSE spans,
                 Tail(adjs))

ApplyManualAdjustments ==
    /\ pc = "adjust"
    /\ \E adjs \in AdjustmentLists :
         /\ manual_adjustments' = adjs
         /\ sentence_spans' = ApplyAdjustments(sentence_spans, adjs)
    /\ pc' = "audio"
    /\ UNCHANGED <<inputs, fn_vars, local_vars, aligner_report, computed_spans, manifest, grok_vars>>

\* NoValidSpans that is true as soon as one span is None
SomeSpanMissing(spans) == \E i \in DOMAIN spans : spans[i] = NoneSpan

\* "if not valid_spans": no span is left after the filter of None spans
NoValidSpans(spans) == \A i \in DOMAIN spans : spans[i] = NoneSpan

\* "Build audio"; without a valid span build raises RuntimeError
BuildAudio ==
    /\ pc = "audio"
    /\ pc' = IF NoValidSpans(sentence_spans) THEN "raised_no_valid_spans" ELSE "manifest"
    /\ UNCHANGED <<inputs, fn_vars, local_vars, sentence_spans, aligner_report, computed_spans,
                   manual_adjustments, manifest, grok_vars>>

(***************************************************************************)
(* create_alignment_report and create_final_manifest (pipeline/manifest.py)*)
(***************************************************************************)
\* create_alignment_report: every detail gets a score, 0.0 when it had none
create_alignment_report(report) ==
    [report EXCEPT !.details =
        [i \in DOMAIN report.details |->
            [report.details[i] EXCEPT !.has_score = TRUE,
                                      !.score = IF report.details[i].has_score
                                                THEN report.details[i].score ELSE 0]]]

\* the first detail of the report with the given idx, if any
FirstDetail(details, idx) ==
    LET hits == {i \in DOMAIN details : details[i].idx = idx}
    IN  IF hits = {} THEN 0 ELSE SetMin(hits)

\* one entry of manifest["sentences"].  build_dictation_audio returns one timing
\* record per valid span, so the branch "timing info missing" is not taken.
ManifestEntry(idx, span, report) ==
    IF span = NoneSpan
    THEN [idx |-> idx, status |-> "not_aligned", source_span_ms |-> NoneSpan,
          quality_score |-> 0, quality_note |-> "alignment failed"]
    ELSE LET d == FirstDetail(report.details, idx)
         IN  [idx |-> idx, status |-> "absent", source_span_ms |-> span,
              quality_score |-> IF d = 0 THEN Micro
                                ELSE IF report.details[d].has_score
                                     THEN report.details[d].score ELSE 850000,
              quality_note  |-> IF d = 0 THEN "ok"
                                ELSE IF report.details[d].status = "warning"
                                     THEN "low score but acceptable"
                                ELSE IF report.details[d].status = "fallback"
                                     THEN "found with fallback search"
                                ELSE "ok"]

create_final_manifest(spans, report) ==
    [i \in DOMAIN spans |-> ManifestEntry(i, spans[i], report)]

\* "Generate manifests": the end of build
CreateManifest ==
    /\ pc = "manifest"
    /\ manifest' = create_final_manifest(sentence_spans,
                                         create_alignment_report(aligner_report))
    /\ pc' = "done"
    /\ UNCHANGED <<inputs, fn_vars, local_vars, sentence_spans, aligner_report, computed_spans,
                   manual_adjustments, grok_vars>>

Next ==
    \/ StartFuzzy
    \/ AlignNextSentence
    \/ AlignAgain
    \/ FinishFuzzy
    \/ GrokNotAvailable
    \/ GrokWithoutKey
    \/ StartGrok
    \/ \E i \in DOMAIN g_task :
          \/ WorkerTakesTask(i)
          \/ ApiCallParsed(i)
          \/ ApiCallUnparsed(i)
          \/ ApiCallFails(i)
          \/ RequestOverdue(i)
          \/ WorkerRaises(i)
          \/ Collect(i)
    \/ FinishGrok
    \/ HybridAfterGrok
    \/ FinishHybrid
    \/ ApplyManualAdjustments
    \/ BuildAudio
    \/ CreateManifest

Spec == Init /\ [][Next]_vars

\* a step of the executor's threads or of the loop over as_completed
ExecutorStep ==
    \E i \in DOMAIN g_task :
        \/ WorkerTakesTask(i)
        \/ ApiCallParsed(i)
        \/ ApiCallUnparsed(i)
        \/ ApiCallFails(i)
        \/ RequestOverdue(i)
        \/ WorkerRaises(i)
        \/ Collect(i)

\* the threads of the executor keep being scheduled, and every API call
\* returns or raises in the end
FairSpec == Spec /\ WF_vars(ExecutorStep)

(***************************************************************************)
(* The functions of pipeline/normalize.py and the token matcher of         *)
(* SentenceAligner, called on their own                                    *)
(***************************************************************************)
\* the longest string given to normalize_token
MaxTokenLen == 6

\* a letter, the apostrophe, white space and punctuation
TokenChars == {"A", "'", " ", "-"}

TokenInputs == UNION {[1..n -> TokenChars] : n \in 0..MaxTokenLen}

\* the abbreviations and the full forms of the unit table
UnitTokens == DOMAIN UNIT_ABBREVIATIONS \cup {UNIT_ABBREVIATIONS[u] : u \in DOMAIN UNIT_ABBREVIATIONS}

\* the contractions of the table, as the table spells them
ContractionTokens == DOMAIN contractions

(***************************************************************************)
(* DictationBuilder.load_words_json on a parsed JSON document.  A JSON     *)
(* value is a number, a string, an array or an object; a number stands for *)
(* every value that is not a container.                                    *)
(***************************************************************************)
JNum(n) == <<"number", n>>

JStr(chars) == <<"string", chars>>

JArr(items) == <<"array", items>>

JObj(fields) == <<"object", fields>>

KindOf(v) == v[1]

ValueOf(v) == v[2]

K_words == <<"w","o","r","d","s">>

K_text == <<"t","e","x","t">>

K_start == <<"s","t","a","r","t">>

K_end == <<"e","n","d">>

K_language_code == <<"l","a","n","g","u","a","g","e","_","c","o","d","e">>

K_id == <<"i","d">>

\* key in v, for a v that supports the operator (not a number): a key of a
\* dict, an element of a list, a substring of a str
Contains(v, key) ==
    CASE KindOf(v) = "object" -> key \in DOMAIN ValueOf(v)
      [] KindOf(v) = "array"  -> \E i \in DOMAIN ValueOf(v) : ValueOf(v)[i] = JStr(key)
      [] KindOf(v) = "string" -> IsSubstring(key, ValueOf(v))

\* bool(v)
Truthy(v) ==
    CASE KindOf(v) = "object" -> DOMAIN ValueOf(v) # {}
      [] KindOf(v) = "array"  -> ValueOf(v) # <<>>
      [] KindOf(v) = "string" -> ValueOf(v) # <<>>
      [] KindOf(v) = "number" -> ValueOf(v) # 0

\* the values iterating over v yields, for a v that can be iterated; the keys
\* of a dict are taken in some order
Elements(v) ==
    CASE KindOf(v) = "array"  -> ValueOf(v)
      [] KindOf(v) = "string" -> [i \in DOMAIN ValueOf(v) |-> JStr(<<ValueOf(v)[i]>>)]
      [] KindOf(v) = "object" ->
           LET keys == DOMAIN ValueOf(v)
               order == CHOOSE f \in [1..Cardinality(keys) -> keys] :
                           \A i, j \in DOMAIN f : i # j => f[i] # f[j]
           IN  [i \in DOMAIN order |-> JStr(order[i])]

\* 'text' in w and 'start' in w and 'end' in w
HasWordFields(w) == Contains(w, K_text) /\ Contains(w, K_start) /\ Contains(w, K_end)

\* all(... for w in words) over the elements from position i on: "true",
\* "false", or "TypeError" when the generator reaches a w that does not
\* support the operator in
RECURSIVE AllWordFields(_, _)
AllWordFields(ws, i) ==
    IF i > Len(ws) THEN "true"
    ELSE IF KindOf(ws[i]) = "number" THEN "TypeError"
    ELSE IF ~HasWordFields(ws[i]) THEN "false"
    ELSE AllWordFields(ws, i + 1)

Raised(error) == [kind |-> "raised", error |-> error, words |-> JNum(0), format |-> "none"]

Returned(ws, format) == [kind |-> "returned", error |-> "none", words |-> ws, format |-> format]

\* load_words_json once words = data['words'] is a value that is true
CheckWords(data, ws, all_fields) ==
    IF all_fields = "TypeError" THEN Raised("TypeError")
    ELSE IF all_fields = "false" THEN Raised("ValueError")
    ELSE Returned(ws, IF Contains(data, K_language_code) THEN "assemblyai" ELSE "spec")

\* load_words_json from the test 'words' in data on
load_words_json(data) ==
    IF KindOf(data) = "number" THEN Raised("TypeError")
    ELSE IF ~Contains(data, K_words) THEN Raised("ValueError")
    ELSE IF KindOf(data) # "object" THEN Raised("TypeError")
    ELSE IF ~Truthy(ValueOf(data)[K_words]) THEN Raised("ValueError")
    ELSE IF KindOf(ValueOf(data)[K_words]) = "number" THEN Raised("TypeError")
    ELSE CheckWords(data, ValueOf(data)[K_words], AllWordFields(Elements(ValueOf(data)[K_words]), 1))

\* the most words of a transcription document given to load_words_json
MaxWords == 2

WordRecord == (K_text :> JStr(<<"a">>)) @@ (K_start :> JNum(0)) @@ (K_end :> JNum(1))

Without(fields, key) == [k \in DOMAIN fields \ {key} |-> fields[k]]

\* a word, a word lacking one field, and values that are not objects
WordValues ==
    {JObj(WordRecord), JObj(Without(WordRecord, K_text)), JObj(Without(WordRecord, K_start)),
     JObj(Without(WordRecord, K_end)), JArr(<<JStr(K_text), JStr(K_start), JStr(K_end)>>),
     JStr(K_text \o K_start \o K_end), JNum(5)}

\* what the key "words" may hold
WordsValues ==
    {JArr(ws) : ws \in UNION {[1..n -> WordValues] : n \in 0..MaxWords}}
    \cup {JNum(0), JNum(5), JStr(K_words), JObj(WordRecord)}

\* the documents: with "words", in both dialects, and without
Documents ==
    {JObj(K_words :> ws) : ws \in WordsValues}
    \cup {JObj((K_words :> ws) @@ (K_language_code :> JStr(<<"e","n">>))) : ws \in WordsValues}
    \cup {JObj(K_id :> JStr(<<"x">>)), JObj(K_language_code :> JStr(<<"e","n">>)),
          JArr(<<JStr(K_words)>>), JArr(<<>>), JStr(K_words), JNum(5)}

(***************************************************************************)
(* AudioPipeline.build_dictation_audio (pipeline/audio.py): the number of  *)
(* repeats of each sentence.  Durations are in milliseconds:               *)
(* duration_ms / 1000.0 < threshold_seconds is duration_ms < threshold_ms. *)
(***************************************************************************)
\* the branch taken for a chunk exactly as long as the threshold, were the
\* comparison <=
IsShortChunkInclusive(duration_ms, threshold_ms) == duration_ms <= threshold_ms

\* original_chunk_duration_seconds < dynamic_threshold_seconds
IsShortChunk(duration_ms, threshold_ms) == duration_ms < threshold_ms

\* sentence_repeats of one span
SentenceRepeats(span, audio_config) ==
    IF audio_config.dynamic_reps_enabled
    THEN IF IsShortChunk(span[2] - span[1], audio_config.threshold_ms)
         THEN audio_config.short_chunk_repeats
         ELSE audio_config.long_chunk_repeats
    ELSE audio_config.repeats

\* the sentence_info build_dictation_audio returns, as far as repeats go
build_dictation_audio(spans, audio_config) ==
    [i \in DOMAIN spans |->
        [idx |-> i, source_span_ms |-> spans[i],
         num_repeats |-> SentenceRepeats(spans[i], audio_config),
         original_duration_ms |-> spans[i][2] - spans[i][1]]]

\* the most spans given to build_dictation_audio
MaxSpans == 2

\* spans shorter than, as long as and longer than the default threshold
AudioSpans == {<<0, 900>>, <<0, 4499>>, <<100, 4600>>, <<0, 4501>>, <<1000, 9900>>}

AudioSpanLists == UNION {[1..n -> AudioSpans] : n \in 1..MaxSpans}

\* the arguments build passes: config['repeats'] and config['dynamic_repetitions']
AudioConfigs ==
    {[dynamic_reps_enabled |-> e, repeats |-> r, threshold_ms |-> 4500,
      short_chunk_repeats |-> 3, long_chunk_repeats |-> 5] : e \in BOOLEAN, r \in {2, 3}}

(***************************************************************************)
(* Calls of the SentenceAligner's scoring and search                       *)
(***************************************************************************)
\* some sentence tokens
FnSentences == {s \in SentencePool : tokenize(s) # <<>>}

\* the spans of an aligner over w: 0 <= start_idx <= end_idx < len(words)
SpansOf(w) == {p \in (0..(Len(w) - 1)) \X (0..(Len(w) - 1)) : p[1] <= p[2]}

\* the calls of _score_span: an aligner over w, a sentence and a span
ScoreSpanCalls ==
    UNION {{[fn |-> "score_candidate", args |-> <<w, s, p[1], p[2]>>] : s \in FnSentences, p \in SpansOf(w)} : w \in Transcriptions}

\* a transcription that says the same sentence twice
WordsTwice ==
    <<[text |-> <<"T","h","e">>, start |-> 0, end |-> 100],
      [text |-> <<"s","e","a">>, start |-> 100, end |-> 500],
      [text |-> <<"i","s">>, start |-> 500, end |-> 600],
      [text |-> <<"d","e","e","p",".">>, start |-> 600, end |-> 900],
      [text |-> <<"T","h","e">>, start |-> 1200, end |-> 1300],
      [text |-> <<"s","e","a">>, start |-> 1300, end |-> 1700],
      [text |-> <<"i","s">>, start |-> 1700, end |-> 1800],
      [text |-> <<"d","e","e","p",".">>, start |-> 1800, end |-> 2100]>>

FnTranscriptions == Transcriptions \cup {WordsTwice}

\* a configuration whose window is shorter than the transcriptions
NarrowConfig == [AlignmentConfig EXCEPT !.window_tokens = 2]

\* a configuration with scoring weights of the caller's own
WeightedConfig == [AlignmentConfig EXCEPT !.weight_token_sim = 60, !.weight_coverage = 20]

\* the configurations of the aligners called on their own
FnConfigs == {AlignmentConfig, NarrowConfig, WeightedConfig}

\* the calls of _align_single_sentence: an aligner over w with configuration
\* cfg, a sentence and a cursor
AlignSingleCalls ==
    UNION {{[fn |-> "align_single_sentence", args |-> <<w, s, c, cfg>>] : s \in FnSentences, c \in 0..Len(w), cfg \in FnConfigs} : w \in FnTranscriptions}

(***************************************************************************)
(* SentenceAligner.align_sentences as a function of its arguments          *)
(***************************************************************************)
\* the status align_sentences records for a sentence
SentenceStatus(out) ==
    IF out.empty THEN "empty" ELSE IF ~out.res.aligned THEN "failed" ELSE out.res.status

\* the iterations of the loop from sentence i on, for an aligner over w whose
\* cursor is cur: the span and the status of each sentence
RECURSIVE AlignFrom(_, _, _, _, _, _)
AlignIteration(w, sents, i, cur, pad, out) ==
    <<[span |-> SpanIn(w, out, pad), status |-> SentenceStatus(out)]>>
    \o AlignFrom(w, sents, i + 1, NextCursor(cur, out), out.res.config_after, pad)

AlignFrom(w, sents, i, cur, cfg, pad) ==
    IF i > Len(sents) THEN <<>>
    ELSE AlignIteration(w, sents, i, cur, pad, TableOutcome(w, sents[i], cur, cfg))

\* align_sentences of an aligner constructed over w with configuration cfg
align_sentences(w, sents, cfg, pad) == AlignFrom(w, sents, 1, 0, cfg, pad)

\* the list without its k-th element
DeleteAt(seq, k) == [i \in 1..(Len(seq) - 1) |-> IF i < k THEN seq[i] ELSE seq[i + 1]]

\* the calls of align_sentences
AlignSentencesCalls ==
    {[fn |-> "align_sentences", args |-> <<w, sents, AlignmentConfig, 100>>] : w \in Transcriptions, sents \in SentenceLists}

(***************************************************************************)
(* extract_anchors as a function of its arguments                          *)
(***************************************************************************)
\* the longest token list extract_anchors is called on
MaxAnchorTokens == 4

\* sentence tokens as tokenize returns them: a number, a token that begins
\* with a digit, a long word of the transcription, a long word that is not in
\* it, a stopword and a short word
AnchorTokens ==
    {<<"4","2">>, <<"3","d">>, <<"o","c","e","a","n">>, <<"z","e","b","r","a">>,
     <<"t","h","e">>, <<"d","e","e","p">>}

AnchorTokenLists == UNION {[1..n -> AnchorTokens] : n \in 1..MaxAnchorTokens}

\* the calls of extract_anchors, with the IDF scores of a transcription
ExtractAnchorsCalls ==
    {[fn |-> "extract_anchors", args |-> <<t, IdfScores(WordsOcean), m>>] : t \in AnchorTokenLists, m \in {2, 3}}

\* the call made: normalize_token on a string, _tokens_match on two unit
\* tokens, generate_contraction_variants on a contraction, _score_span's
\* iteration for a contraction against the words of its expansion, and the
\* calls defined above
CallMade ==
    \/ fn_call \in {[fn |-> "normalize_token", args |-> <<t>>] : t \in TokenInputs}
    \/ fn_call \in {[fn |-> "tokens_match", args |-> <<a, b>>] : a \in UnitTokens, b \in UnitTokens}
    \/ fn_call \in {[fn |-> "generate_contraction_variants", args |-> <<c>>] : c \in ContractionTokens}
    \/ fn_call \in {[fn |-> "score_span", args |-> <<c, contractions[c]>>] : c \in ContractionTokens}
    \/ fn_call \in {[fn |-> "load_words_json", args |-> <<data>>] : data \in Documents}
    \/ fn_call \in {[fn |-> "build_dictation_audio", args |-> <<s, a>>] : s \in AudioSpanLists, a \in AudioConfigs}
    \/ fn_call \in ScoreSpanCalls
    \/ fn_call \in AlignSingleCalls
    \/ fn_call \in AlignSentencesCalls
    \/ fn_call \in ExtractAnchorsCalls

\* the variables of build and of the two aligners
build_vars == <<inputs, pc, local_vars, sentence_spans, aligner_report, computed_spans,
                manual_adjustments, manifest, grok_vars>>

\* no build is running
NoBuild ==
    /\ words = <<>>
    /\ sentences = <<>>
    /\ method = "fuzzy"
    /\ config = AlignmentConfig
    /\ pad_ms = 0
    /\ grok_env = "ok"
    /\ grok_config = GrokAlignerConfig
    /\ pc = "no_build"
    /\ normalized_words = <<>>
    /\ idf_scores = <<>>
    /\ l_sentences = <<>>
    /\ l_spans = <<>>
    /\ l_report = EmptyReport(0)
    /\ cursor = 0
    /\ l_trace = <<>>
    /\ self_config = AlignmentConfig
    /\ call_no = 0
    /\ first_call = <<>>
    /\ sentence_spans = <<>>
    /\ aligner_report = EmptyReport(0)
    /\ computed_spans = <<>>
    /\ manual_adjustments = <<>>
    /\ manifest = <<>>
    /\ g_task = <<>>
    /\ g_spans = <<>>
    /\ g_report = EmptyReport(0)
    /\ failed_indices = <<>>

FnInit ==
    /\ NoBuild
    /\ CallMade
    /\ fn_returned = <<>>

\* normalize_token called on the token, and then on what it returned
CallNormalizeToken ==
    /\ fn_call.fn = "normalize_token"
    /\ Len(fn_returned) < 2
    /\ fn_returned' = Append(fn_returned,
                             normalize_token(IF fn_returned = <<>> THEN fn_call.args[1]
                                             ELSE fn_returned[Len(fn_returned)]))
    /\ UNCHANGED <<build_vars, fn_call>>

\* _tokens_match called on the two tokens with the default threshold, and then
\* on the two tokens in the other order
CallTokensMatch ==
    /\ fn_call.fn = "tokens_match"
    /\ Len(fn_returned) < 2
    /\ fn_returned' = Append(fn_returned,
                             IF fn_returned = <<>>
                             THEN tokens_match(fn_call.args[1], fn_call.args[2],
                                               self_config.token_ratio_cutoff)
                             ELSE tokens_match(fn_call.args[2], fn_call.args[1],
                                               self_config.token_ratio_cutoff))
    /\ UNCHANGED <<build_vars, fn_call>>

\* generate_contraction_variants called on the token
CallContractionVariants ==
    /\ fn_call.fn = "generate_contraction_variants"
    /\ fn_returned = <<>>
    /\ fn_returned' = <<generate_contraction_variants(fn_call.args[1])>>
    /\ UNCHANGED <<build_vars, fn_call>>

\* _score_span's iteration for the sentence token, on a span of the given
\* transcription words
CallScoreSpan ==
    /\ fn_call.fn = "score_span"
    /\ fn_returned = <<>>
    /\ fn_returned' = <<ScoreToken(fn_call.args[1], fn_call.args[2], self_config)>>
    /\ UNCHANGED <<build_vars, fn_call>>

\* load_words_json called on a document
CallLoadWordsJson ==
    /\ fn_call.fn = "load_words_json"
    /\ fn_returned = <<>>
    /\ fn_returned' = <<load_words_json(fn_call.args[1])>>
    /\ UNCHANGED <<build_vars, fn_call>>

\* build_dictation_audio called on the valid spans
CallBuildDictationAudio ==
    /\ fn_call.fn = "build_dictation_audio"
    /\ fn_returned = <<>>
    /\ fn_returned' = <<build_dictation_audio(fn_call.args[1], fn_call.args[2])>>
    /\ UNCHANGED <<build_vars, fn_call>>

\* _score_span called by an aligner over the words, with the default
\* configuration, on the tokens of the sentence, its anchors and a span
CallScoreCandidate ==
    /\ fn_call.fn = "score_candidate"
    /\ fn_returned = <<>>
    /\ fn_returned' = <<score_span(tokenize(fn_call.args[2]), fn_call.args[3], fn_call.args[4],
                                   extract_anchors(tokenize(fn_call.args[2]),
                                                   IdfScores(fn_call.args[1]), 3),
                                   self_config, NormalizedWords(fn_call.args[1]))>>
    /\ UNCHANGED <<build_vars, fn_call>>

\* _align_single_sentence called by an aligner over the words on the tokens of
\* the sentence, its anchors and the cursor
CallAlignSingleSentence ==
    /\ fn_call.fn = "align_single_sentence"
    /\ fn_returned = <<>>
    /\ fn_returned' = <<SentenceOutcome(fn_call.args[1], fn_call.args[2], fn_call.args[3],
                                        fn_call.args[4]).res>>
    /\ UNCHANGED <<build_vars, fn_call>>

\* align_sentences called on the sentences
CallAlignSentences ==
    /\ fn_call.fn = "align_sentences"
    /\ fn_returned = <<>>
    /\ fn_returned' = <<[deleted |-> 0,
                         result  |-> align_sentences(fn_call.args[1], fn_call.args[2],
                                                     fn_call.args[3], fn_call.args[4])]>>
    /\ UNCHANGED <<build_vars, fn_call>>

\* align_sentences called once more, by a new aligner over the same words, on
\* the sentences without the k-th, which the first call did not align
CallAlignSentencesWithout(k) ==
    /\ fn_call.fn = "align_sentences"
    /\ Len(fn_returned) = 1
    /\ k <= Len(fn_call.args[2])
    /\ fn_returned[1].result[k].span = NoneSpan
    /\ fn_returned' = Append(fn_returned,
                             [deleted |-> k,
                              result  |-> align_sentences(fn_call.args[1],
                                                          DeleteAt(fn_call.args[2], k),
                                                          fn_call.args[3], fn_call.args[4])])
    /\ UNCHANGED <<build_vars, fn_call>>

\* extract_anchors called on the tokens
CallExtractAnchors ==
    /\ fn_call.fn = "extract_anchors"
    /\ fn_returned = <<>>
    /\ fn_returned' = <<extract_anchors(fn_call.args[1], fn_call.args[2], fn_call.args[3])>>
    /\ UNCHANGED <<build_vars, fn_call>>

FnNext ==
    \/ CallNormalizeToken
    \/ CallTokensMatch
    \/ CallContractionVariants
    \/ CallScoreSpan
    \/ CallLoadWordsJson
    \/ CallBuildDictationAudio
    \/ CallScoreCandidate
    \/ CallAlignSingleSentence
    \/ CallAlignSentences
    \/ \E k \in 1..MaxSentences : CallAlignSentencesWithout(k)
    \/ CallExtractAnchors

FnSpec == FnInit /\ [][FnNext]_vars

(***************************************************************************)
(* Properties                                                              *)
(***************************************************************************)
\* _perform_alignment has returned
PostAlignment == pc \in {"adjust", "audio", "manifest", "done", "raised_no_valid_spans"}

\* the span the trace entry e of the Local Aligner stands for
TraceSpan(e) ==
    IF e.empty \/ ~e.res.aligned THEN NoneSpan
    ELSE <<Max(0, words[e.res.start_idx + 1].start - pad_ms),
           words[e.res.end_idx + 1].end + pad_ms>>

\* the span the future f of the LLM aligner stands for
FutureSpan(f) == IF f.kind = "ok" THEN <<f.start_ms, f.end_ms>> ELSE NoneSpan

\* the Local Aligner failed on the sentence of trace entry e
Failed(e) == e.empty \/ ~e.res.aligned

\* the cursor after the iteration recorded in l_trace[i]
CursorAfter(i) == IF i < Len(l_trace) THEN l_trace[i + 1].cursor ELSE cursor

\* entry k of the span list was computed for sentence k
EntryBelongsTo(k) ==
    IF FuzzyOnly
    THEN /\ l_trace[k].sentence = sentences[k]
         /\ computed_spans[k] = TraceSpan(l_trace[k])
    ELSE IF method = "grok" \/ g_task[k].kind = "ok"
    THEN computed_spans[k] = FutureSpan(g_task[k])
    ELSE \E p \in DOMAIN l_trace :
            /\ failed_indices[p] = k - 1
            /\ l_trace[p].sentence = sentences[k]
            /\ computed_spans[k] = TraceSpan(l_trace[p])

\* C1: with every method (fuzzy, grok, hybrid) the span list _perform_alignment
\* returns has exactly one entry per input sentence, in input order: its length
\* is the number of sentences and entry k is the result computed for sentence k
\* (None when that sentence was not aligned).
C1_OneEntryPerSentence ==
    PostAlignment =>
        /\ Len(computed_spans) = Len(sentences)
        /\ \A k \in DOMAIN sentences : EntryBelongsTo(k)

\* a hybrid run over two sentences that ends with a span and a None
C1_Witness ==
    /\ pc = "adjust"
    /\ method = "hybrid"
    /\ Len(sentences) = 2
    /\ Len(l_trace) = 2
    /\ computed_spans[1] # NoneSpan
    /\ computed_spans[2] = NoneSpan

\* C2: for any two sentences i < j that the Local Aligner both aligns in one
\* run, end_idx(i) < start_idx(j); every chosen span has
\* cursor <= start_idx <= end_idx < N; and the cursor never decreases.
C2_Monotonicity ==
    /\ \A i \in DOMAIN l_trace :
          l_trace[i].res.aligned =>
             /\ l_trace[i].cursor <= l_trace[i].res.start_idx
             /\ l_trace[i].res.start_idx <= l_trace[i].res.end_idx
             /\ l_trace[i].res.end_idx < Len(words)
    /\ \A i, j \in DOMAIN l_trace :
          (i < j /\ l_trace[i].res.aligned /\ l_trace[j].res.aligned)
             => l_trace[i].res.end_idx < l_trace[j].res.start_idx
    /\ \A i \in DOMAIN l_trace : l_trace[i].cursor <= CursorAfter(i)

\* two sentences aligned in one run, the second one after the first
C2_Witness ==
    \E i, j \in DOMAIN l_trace :
        /\ i < j
        /\ l_trace[i].res.aligned
        /\ l_trace[j].res.aligned
        /\ l_trace[j].cursor > 0

\* C3: if the Local Aligner fails on sentence i (an empty sentence, or no
\* viable span after the strict and the fallback pass), sentence i+1 is
\* searched from the cursor sentence i was searched from.
C3_CursorKeptOnFailure ==
    \A i \in DOMAIN l_trace : Failed(l_trace[i]) => CursorAfter(i) = l_trace[i].cursor

\* a sentence fails after both passes at a cursor > 0 and the next one is aligned
C3_Witness ==
    \E i \in DOMAIN l_trace :
        /\ i < Len(l_trace)
        /\ ~l_trace[i].empty
        /\ l_trace[i].res.fallback_ran
        /\ ~l_trace[i].res.aligned
        /\ l_trace[i].cursor > 0
        /\ l_trace[i + 1].res.aligned

\* the sentence of trace entry e equals, token by token, the words from the cursor
ExactMatch(e) ==
    /\ ~e.empty
    /\ e.cursor + Len(e.tokens) <= Len(words)
    /\ \A t \in DOMAIN e.tokens : e.tokens[t] = normalized_words[e.cursor + t]

\* C4: with the default configuration a sentence whose tokens equal, in order,
\* the run of words that starts at the cursor is aligned to exactly that run
\* with status ok and a score >= 0.85, and its span is
\* (max(0, first.start - pad_ms), last.end + pad_ms).
C4_ExactMatchIsOk ==
    \A i \in DOMAIN l_trace :
        (config = AlignmentConfig /\ ExactMatch(l_trace[i])) =>
            /\ l_trace[i].res.status = "ok"
            /\ l_trace[i].res.score >= 850000
            /\ l_trace[i].res.start_idx = l_trace[i].cursor
            /\ l_trace[i].res.end_idx = l_trace[i].cursor + Len(l_trace[i].tokens) - 1
            /\ l_spans[i] = <<Max(0, words[l_trace[i].cursor + 1].start - pad_ms),
                              words[l_trace[i].cursor + Len(l_trace[i].tokens)].end + pad_ms>>

\* the strict pass of result r found a span that scores at least x
StrictAtLeast(r, x) == r.strict.found /\ r.strict.score >= x

\* C5: for every non-empty sentence the result has status ok exactly when the
\* strict pass's best score is >= min_accept, and status warning (accepted, the
\* cursor advanced past the span) exactly when that score is >= warn_accept and
\* < min_accept; no other strict-pass result is accepted.
C5_StrictPolicy ==
    \A i \in DOMAIN l_trace :
        LET r == l_trace[i].res
        IN  ~l_trace[i].empty =>
              /\ r.status = "ok" <=> StrictAtLeast(r, config.min_accept)
              /\ r.status = "warning" <=>
                    (StrictAtLeast(r, config.warn_accept)
                        /\ ~StrictAtLeast(r, config.min_accept))
              /\ r.status \in {"ok", "warning"} =>
                    /\ r.start_idx = r.strict.start_idx
                    /\ r.end_idx = r.strict.end_idx
                    /\ r.score = r.strict.score
                    /\ l_spans[i] # NoneSpan
                    /\ CursorAfter(i) = r.end_idx + 1
              /\ ~StrictAtLeast(r, config.warn_accept) =>
                    (r.status \in {"fallback", "none"} /\ r.fallback_ran)

\* one run with a sentence accepted as ok and another accepted as warning
C5_Witness ==
    \E i, j \in DOMAIN l_trace :
        /\ l_trace[i].res.status = "ok"
        /\ l_trace[j].res.status = "warning"

\* the fallback pass of result r found a span that scores at least x
RelaxedAtLeast(r, x) == r.relaxed.found /\ r.relaxed.score >= x

\* C6: the fallback pass runs only when the strict pass found no candidate or a
\* best score below warn_accept; its result is accepted, with status fallback,
\* exactly when its best score is >= warn_accept; otherwise the sentence gets a
\* None span and the cursor is not advanced.
C6_FallbackPolicy ==
    \A i \in DOMAIN l_trace :
        LET r == l_trace[i].res
        IN  ~l_trace[i].empty =>
              /\ r.fallback_ran <=> ~StrictAtLeast(r, config.warn_accept)
              /\ r.status = "fallback" <=>
                    (r.fallback_ran /\ RelaxedAtLeast(r, config.warn_accept))
              /\ r.status = "fallback" =>
                    /\ r.start_idx = r.relaxed.start_idx
                    /\ r.end_idx = r.relaxed.end_idx
                    /\ l_spans[i] # NoneSpan
              /\ (r.fallback_ran /\ ~RelaxedAtLeast(r, config.warn_accept)) =>
                    /\ ~r.aligned
                    /\ l_spans[i] = NoneSpan
                    /\ CursorAfter(i) = l_trace[i].cursor

\* one run with a sentence accepted by the fallback pass and another one that
\* the fallback pass found a span for but did not accept
C6_Witness ==
    \E i, j \in DOMAIN l_trace :
        /\ l_trace[i].res.status = "fallback"
        /\ l_trace[j].res.fallback_ran
        /\ l_trace[j].res.relaxed.found
        /\ ~l_trace[j].res.aligned

\* C7: after a hybrid run the final span of sentence k is the LLM's span when
\* the LLM succeeded for k, and otherwise the result of the Local Aligner, which
\* was run over only the LLM-failed sentences in their original order; a span
\* the LLM produced is never replaced by a local one.
C7_HybridMerge ==
    (PostAlignment /\ method = "hybrid" /\ grok_env = "ok") =>
        /\ l_sentences = [p \in DOMAIN failed_indices |-> sentences[failed_indices[p] + 1]]
        /\ \A p, q \in DOMAIN failed_indices : p < q => failed_indices[p] < failed_indices[q]
        /\ \A k \in DOMAIN sentences :
              IF g_task[k].kind = "ok"
              THEN /\ computed_spans[k] = <<g_task[k].start_ms, g_task[k].end_ms>>
                   /\ \A p \in DOMAIN failed_indices : failed_indices[p] # k - 1
              ELSE \E p \in DOMAIN failed_indices :
                      /\ failed_indices[p] = k - 1
                      /\ computed_spans[k] = l_spans[p]

\* a hybrid run where the LLM aligned sentence 1 and the Local Aligner sentence 2
C7_Witness ==
    /\ pc = "adjust"
    /\ method = "hybrid"
    /\ grok_env = "ok"
    /\ Len(sentences) = 2
    /\ g_task[1].kind = "ok"
    /\ g_task[2].kind # "ok"
    /\ failed_indices = <<1>>
    /\ computed_spans[2] # NoneSpan

\* the last manual adjustment given for sentence k, 0 if there is none
LastAdjustment(k) ==
    LET hits == {i \in DOMAIN manual_adjustments : manual_adjustments[i].sentence_idx = k}
    IN  IF hits = {} THEN 0 ELSE SetMax(hits)

\* C8: for every manual adjustment (sentence_idx, start_ms, end_ms) with a valid
\* index, the sentence's output times are exactly (start_ms, end_ms) whatever
\* span was computed, its status is manual and its quality score is 1.0.
C8_ManualOverride ==
    pc = "done" =>
        \A k \in DOMAIN sentences :
            LastAdjustment(k) # 0 =>
                /\ manifest[k].source_span_ms =
                      <<manual_adjustments[LastAdjustment(k)].start_ms,
                        manual_adjustments[LastAdjustment(k)].end_ms>>
                /\ manifest[k].status = "manual"
                /\ manifest[k].quality_score = Micro

\* a manual adjustment with start_ms >= end_ms or a negative time
InvalidAdjustment(adj) == adj.start_ms >= adj.end_ms \/ adj.start_ms < 0 \/ adj.end_ms < 0

\* the last valid manual adjustment given for sentence k, 0 if there is none
LastValidAdjustment(k) ==
    LET hits == {i \in DOMAIN manual_adjustments :
                    /\ manual_adjustments[i].sentence_idx = k
                    /\ ~InvalidAdjustment(manual_adjustments[i])}
    IN  IF hits = {} THEN 0 ELSE SetMax(hits)

\* C9: a manual adjustment with start_ms >= end_ms (or a negative time) for
\* sentence k is not applied: sentence k keeps its computed span, and the
\* adjustments of other sentences are applied as given.
C9_InvalidAdjustmentRejected ==
    pc \in {"audio", "manifest", "done", "raised_no_valid_spans"} =>
        \A k \in DOMAIN sentence_spans :
            sentence_spans[k] =
                IF LastValidAdjustment(k) = 0 THEN computed_spans[k]
                ELSE <<manual_adjustments[LastValidAdjustment(k)].start_ms,
                       manual_adjustments[LastValidAdjustment(k)].end_ms>>

\* the report has a detail for sentence k that tells its failure
FailureReported(k) ==
    \E d \in DOMAIN aligner_report.details :
        /\ aligner_report.details[d].idx = k
        /\ aligner_report.details[d].status \in {"failed", "empty", "error"}

\* C10 (amended): a sentence for which no viable span is found, or whose LLM
\* request fails or raises in its worker, yields a None entry and a report
\* detail, and every other sentence is still processed; the build aborts on
\* alignment failures only when, after the manual adjustments, no sentence at
\* all has a span.
C10_FailuresFatalOnlyIfAllFail ==
    /\ PostAlignment =>
          /\ Len(computed_spans) = Len(sentences)
          /\ Len(l_trace) = Len(l_sentences)
          /\ \A k \in DOMAIN g_task : g_task[k].state = "collected"
          /\ \A k \in DOMAIN g_task :
                g_task[k].kind # "ok" =>
                    /\ g_spans[k] = NoneSpan
                    /\ \E d \in DOMAIN g_report.details :
                          /\ g_report.details[d].idx = k
                          /\ g_report.details[d].status =
                                IF g_task[k].kind = "raised" THEN "error" ELSE "failed"
          /\ \A k \in DOMAIN sentences : computed_spans[k] = NoneSpan => FailureReported(k)
    /\ pc = "raised_no_valid_spans" =>
          \A k \in DOMAIN sentence_spans : sentence_spans[k] = NoneSpan

\* a build that ends with the manifest although one of its sentences was not
\* aligned and the worker of another one raised
C10_Witness ==
    /\ pc = "done"
    /\ \E k \in DOMAIN manifest : manifest[k].status = "not_aligned"
    /\ \E k \in DOMAIN manifest : manifest[k].status # "not_aligned"
    /\ \E k \in DOMAIN g_task : g_task[k].kind = "raised"

\* C10 as stated: the build never aborts because sentences failed to align.
C10_FailuresNeverFatal == pc # "raised_no_valid_spans"


(***************************************************************************)
(* Degradation of the hybrid method                                        *)
(***************************************************************************)
\* _perform_alignment raised instead of returning
AlignmentRaised == pc \in {"raised_grok_not_available", "raised_no_api_key"}

\* C11: when the method is hybrid and the LLM aligner cannot be used (the
\* module is not importable, or no API key is configured), _perform_alignment
\* does not raise and returns the Local Aligner's result for all sentences.
C11_HybridDegradesToLocal ==
    (method = "hybrid" /\ grok_env \in {"unavailable", "no_key"}) =>
        /\ ~AlignmentRaised
        /\ PostAlignment => /\ l_sentences = sentences
                            /\ computed_spans = l_spans


(***************************************************************************)
(* The details of the report                                               *)
(***************************************************************************)
\* the status the Local Aligner gave the sentence of trace entry e
TraceStatus(e) ==
    IF e.empty THEN "empty" ELSE IF ~e.res.aligned THEN "failed" ELSE e.res.status

\* the status the LLM aligner gave the sentence of future f
FutureStatus(f) ==
    IF f.kind = "raised" THEN "error"
    ELSE IF f.kind = "none" THEN "failed"
    ELSE IF f.confidence < 90 THEN "warning" ELSE "ok"

\* the final outcome of sentence k: in hybrid, the Local Aligner's when the
\* LLM aligner left the sentence without a span
FinalStatus(k) ==
    IF FuzzyOnly THEN TraceStatus(l_trace[k])
    ELSE IF method = "grok" \/ g_task[k].kind = "ok" THEN FutureStatus(g_task[k])
    ELSE TraceStatus(l_trace[CHOOSE p \in DOMAIN l_trace : failed_indices[p] = k - 1])

\* the number of entries of the report's details for sentence k
DetailsOf(k) ==
    Cardinality({d \in DOMAIN aligner_report.details : aligner_report.details[d].idx = k})

\* C12: when _perform_alignment has returned, the details of its report hold
\* exactly one entry for every sentence whose final outcome is not ok and no
\* entry for a sentence whose final outcome is ok, with every method.
C12_OneDetailPerNonOk ==
    pc = "adjust" =>
        \A k \in DOMAIN sentences :
            DetailsOf(k) = IF FinalStatus(k) = "ok" THEN 0 ELSE 1

(***************************************************************************)
(* The times of the aligned entries                                        *)
(***************************************************************************)
\* the duration of the source audio: it ends with the last word of the
\* transcription
audio_duration_ms == words[Len(words)].end

\* C13: every non-null span _perform_alignment returns, from the Local Aligner
\* or from the LLM aligner, satisfies
\* 0 <= start_ms < end_ms <= audio_duration_ms + pad_ms.
C13_WellFormedTimes ==
    \A k \in DOMAIN computed_spans :
        computed_spans[k] # NoneSpan =>
            /\ 0 <= computed_spans[k][1]
            /\ computed_spans[k][1] < computed_spans[k][2]
            /\ computed_spans[k][2] <= audio_duration_ms + pad_ms

(***************************************************************************)
(* The retries of the LLM aligner                                          *)
(***************************************************************************)
\* _align_single_sentence has returned None for sentence i
ReturnedNone(i) == g_task[i].state \in {"done", "collected"} /\ g_task[i].kind = "none"

\* C14: for each sentence at most max_retries requests are issued, and a
\* sentence for which _align_single_sentence returns None (reported as failed)
\* has had max_retries failed attempts.
C14_RetriesBounded ==
    \A i \in DOMAIN g_task :
        /\ g_task[i].attempts <= grok_config.max_retries
        /\ ReturnedNone(i) => g_task[i].attempts = grok_config.max_retries

(***************************************************************************)
(* The fan-out of the LLM aligner                                          *)
(***************************************************************************)
\* sentence i's task has been submitted and no worker has taken it yet
Waiting(i) == i \in DOMAIN g_task /\ g_task[i].state = "queued"

\* sentence i's first request has been issued, or its worker raised before
Issued(i) == i \in DOMAIN g_task /\ g_task[i].state # "queued"

\* C15: at every moment of GrokAligner.align_sentences at most max_workers
\* requests are in flight, and the request of every sentence submitted is
\* eventually issued.
C15_BoundedFanOut ==
    /\ [](Cardinality(Running) <= grok_config.max_workers)
    /\ \A i \in 1..MaxLLMSentences : Waiting(i) ~> Issued(i)

\* every worker is busy with a request while a sentence waits for one
C15_Witness ==
    /\ pc = "grok_run"
    /\ Cardinality(Running) = grok_config.max_workers
    /\ \E i \in DOMAIN g_task : Waiting(i)

(***************************************************************************)
(* The timeout of a request                                                *)
(***************************************************************************)
\* the request of sentence i is in flight and has been waiting for longer than
\* the configured timeout
InFlightPastTimeout(i) == g_task[i].state = "running" /\ g_task[i].overdue

\* C16: a request that does not answer within the configured timeout is
\* abandoned and counted as a failed attempt: no request stays in flight past
\* the timeout.
C16_TimeoutEnforced == \A i \in DOMAIN g_task : ~InFlightPastTimeout(i)

(***************************************************************************)
(* Determinism of the local aligner                                        *)
(***************************************************************************)
\* the second call of align_sentences on the instance has returned
SecondCallReturned ==
    pc = "local_loop" /\ call_no = 2 /\ Len(l_spans) = Len(l_sentences)

\* C17: a second call of align_sentences on the same SentenceAligner, with the
\* same words, sentences, configuration and pad_ms, returns the span list and
\* the report the first call returned.
C17_Determinism == SecondCallReturned => <<l_spans, l_report>> = first_call

\* the second call has returned, and a sentence of it went through the fallback
\* pass, which swaps self.config
C17_Witness ==
    /\ SecondCallReturned
    /\ \E k \in DOMAIN l_trace : l_trace[k].res.fallback_ran
    /\ \E k \in DOMAIN l_spans : l_spans[k] # NoneSpan

(***************************************************************************)
(* Idempotence of normalize_token                                          *)
(***************************************************************************)
\* normalize_token has been applied to a token and to its own result
NormalizedTwice == fn_call.fn = "normalize_token" /\ Len(fn_returned) = 2

\* C18: normalize_token is idempotent: for every token t,
\* normalize_token(normalize_token(t)) = normalize_token(t).
C18_Idempotent == NormalizedTwice => fn_returned[2] = fn_returned[1]

(***************************************************************************)
(* Unit equivalence                                                        *)
(***************************************************************************)
\* the two tokens of the call canonicalize through the unit table to the same
\* full form
SameUnit ==
    /\ normalize_unit(fn_call.args[1]) = normalize_unit(fn_call.args[2])
    /\ \E u \in DOMAIN UNIT_ABBREVIATIONS :
          UNIT_ABBREVIATIONS[u] = normalize_unit(fn_call.args[1])

\* _tokens_match has been called on the two tokens in both orders
MatchedBothWays == fn_call.fn = "tokens_match" /\ Len(fn_returned) = 2

\* C19: for two tokens a and b that canonicalize through the unit table to the
\* same full form, tokens_match(a, b) and tokens_match(b, a) are both true.
C19_UnitEquivalence ==
    (MatchedBothWays /\ SameUnit) => (fn_returned[1] /\ fn_returned[2])

(***************************************************************************)
(* Contraction equivalence                                                 *)
(***************************************************************************)
\* C20: for every contraction of the table generate_contraction_variants
\* returns the contraction itself and its multi-token expansion, and the
\* sentence token of a contraction is matched against the transcription words
\* of its expansion.
C20_ContractionEquivalence ==
    /\ (fn_call.fn = "generate_contraction_variants" /\ fn_returned # <<>>)
          => fn_returned[1] = <<<<fn_call.args[1]>>, contractions[fn_call.args[1]]>>
    /\ (fn_call.fn = "score_span" /\ fn_returned # <<>>)
          => fn_returned[1].matched > 0

(***************************************************************************)
(* Validation of the transcription document                                *)
(***************************************************************************)
\* the document has a words array and every word of it is an object with text,
\* start and end
WellFormedDocument(data) ==
    /\ KindOf(data) = "object"
    /\ K_words \in DOMAIN ValueOf(data)
    /\ KindOf(ValueOf(data)[K_words]) = "array"
    /\ \A i \in DOMAIN ValueOf(ValueOf(data)[K_words]) :
          /\ KindOf(ValueOf(ValueOf(data)[K_words])[i]) = "object"
          /\ {K_text, K_start, K_end} \subseteq DOMAIN ValueOf(ValueOf(ValueOf(data)[K_words])[i])

\* load_words_json has been called on a document and has returned or raised
DocumentLoaded == fn_call.fn = "load_words_json" /\ fn_returned # <<>>

\* C21: load_words_json raises the invalid-input error (ValueError) whenever
\* the document has no words array or some word lacks text, start or end, and it
\* returns the words list of a document that has them, with or without
\* language_code.
C21_InputValidated ==
    DocumentLoaded =>
        IF WellFormedDocument(fn_call.args[1])
        THEN /\ fn_returned[1].kind = "returned"
             /\ fn_returned[1].words = ValueOf(fn_call.args[1])[K_words]
        ELSE /\ fn_returned[1].kind = "raised"
             /\ fn_returned[1].error = "ValueError"

(***************************************************************************)
(* Dynamic repetitions                                                     *)
(***************************************************************************)
\* build_dictation_audio has returned
AudioBuilt == fn_call.fn = "build_dictation_audio" /\ fn_returned # <<>>

\* the repeats the rule gives a span of the call
RepeatsDue(span) ==
    IF ~fn_call.args[2].dynamic_reps_enabled THEN fn_call.args[2].repeats
    ELSE IF span[2] - span[1] < fn_call.args[2].threshold_ms
         THEN fn_call.args[2].short_chunk_repeats
         ELSE fn_call.args[2].long_chunk_repeats

\* C22: with dynamic repetitions enabled a sentence whose original span is
\* strictly shorter than the threshold is repeated short_chunk_repeats times
\* and one at or above the threshold long_chunk_repeats times; with them
\* disabled every sentence is repeated the fixed repeats count.
C22_DynamicRepetitions ==
    AudioBuilt =>
        /\ Len(fn_returned[1]) = Len(fn_call.args[1])
        /\ \A i \in DOMAIN fn_returned[1] :
              fn_returned[1][i].num_repeats = RepeatsDue(fn_call.args[1][i])

\* dynamic repetitions are enabled and the call got a span exactly as long as
\* the threshold and a shorter one
C22_Witness ==
    /\ AudioBuilt
    /\ fn_call.args[2].dynamic_reps_enabled
    /\ \E i, j \in DOMAIN fn_call.args[1] :
          /\ fn_call.args[1][i][2] - fn_call.args[1][i][1] = fn_call.args[2].threshold_ms
          /\ fn_call.args[1][j][2] - fn_call.args[1][j][1] < fn_call.args[2].threshold_ms
          /\ fn_returned[1][i].num_repeats = 5
          /\ fn_returned[1][j].num_repeats = 3

(***************************************************************************)
(* The ranges of the sub-scores                                            *)
(***************************************************************************)
\* _score_span has returned a candidate
CandidateScored == fn_call.fn = "score_candidate" /\ fn_returned # <<>>

\* C23: the number of sentence tokens _score_span counts as matched never
\* exceeds the number of sentence tokens, so that coverage lies in [0, 1] and the
\* gap penalty is at least 0, also when a token is matched through the 2-/3-word
\* concatenation.
C23_SubScoreRanges ==
    CandidateScored =>
        /\ fn_returned[1].matched <= Len(tokenize(fn_call.args[2]))
        /\ fn_returned[1].coverage >= 0
        /\ fn_returned[1].coverage <= Micro
        /\ fn_returned[1].gap_penalty >= 0

(***************************************************************************)
(* Tie-breaking of _search_for_span                                        *)
(***************************************************************************)
\* _align_single_sentence has returned
SingleAligned == fn_call.fn = "align_single_sentence" /\ fn_returned # <<>>

\* the tokens, the anchors and the normalised words of the call
CallTokens == tokenize(fn_call.args[2])

CallAnchors == extract_anchors(CallTokens, IdfScores(fn_call.args[1]), 3)

CallWords == NormalizedWords(fn_call.args[1])

\* the candidates the strict pass of the call scores
StrictCandidates ==
    Candidates(CallTokens, CallAnchors, fn_call.args[3], fn_call.args[4].elastic_gap,
               fn_call.args[4], CallWords)

\* the candidates of cands with the highest composite score
TopCandidates(cands) == {c \in cands : \A d \in cands : d.total_score <= c.total_score}

\* pass names, of the candidates with the highest score, the one with the
\* smallest start_idx and, among those, the smallest end_idx
EarliestShortest(pass, cands) ==
    /\ \E c \in TopCandidates(cands) : c.start_idx = pass.start_idx /\ c.end_idx = pass.end_idx
    /\ \A c \in TopCandidates(cands) :
          \/ pass.start_idx < c.start_idx
          \/ pass.start_idx = c.start_idx /\ pass.end_idx <= c.end_idx

\* C24: of the candidate spans that share the highest composite score
\* _search_for_span returns the one with the smallest start_idx and, among
\* those, the smallest end_idx.
C24_TieBreaking ==
    (SingleAligned /\ fn_returned[1].strict.found)
        => EarliestShortest(fn_returned[1].strict, StrictCandidates)

\* the strict pass found a span and two candidates with different start_idx
\* share the highest score
C24_Witness ==
    /\ SingleAligned
    /\ fn_returned[1].strict.found
    /\ \E c, d \in TopCandidates(StrictCandidates) : c.start_idx < d.start_idx

(***************************************************************************)
(* The search window                                                       *)
(***************************************************************************)
\* C25: in the strict pass every scored candidate (start_idx, end_idx) lies
\* inside [c, min(N, c + window_tokens)), for every window_tokens and also when
\* the window has been narrowed around anchor positions.
C25_WindowBounds ==
    SingleAligned =>
        \A cand \in StrictCandidates :
            /\ fn_call.args[3] <= cand.start_idx
            /\ cand.start_idx <= cand.end_idx
            /\ cand.end_idx < Min(Len(CallWords), fn_call.args[3] + fn_call.args[4].window_tokens)

(***************************************************************************)
(* The configuration of the fallback pass                                  *)
(***************************************************************************)
\* the caller's configuration with the window grown, the elastic gap widened
\* and the token threshold lowered, everything else as the caller set it
RelaxedOnly(cfg) ==
    [cfg EXCEPT !.window_tokens      = cfg.window_tokens + cfg.fallback_expand_window,
                !.elastic_gap        = cfg.fallback_elastic_gap,
                !.token_ratio_cutoff = cfg.fallback_token_ratio]

\* C26: the fallback pass relaxes only the window, the elastic gap and the
\* token threshold: its result is that of a search whose candidates are scored
\* with the caller's weights, over the caller's window_tokens plus
\* fallback_expand_window.
C26_FallbackRelaxesOnly ==
    (SingleAligned /\ fn_returned[1].fallback_ran)
        => fn_returned[1].relaxed =
              search_for_span(CallTokens, CallAnchors, fn_call.args[3],
                              fn_call.args[4].fallback_elastic_gap,
                              RelaxedOnly(fn_call.args[4]), CallWords)

(***************************************************************************)
(* A failed sentence and the sentences around it                           *)
(***************************************************************************)
\* align_sentences has returned for the sentences and for the sentences
\* without one that failed
AlignedWithout == fn_call.fn = "align_sentences" /\ Len(fn_returned) = 2

\* the position sentence i of the full list has in the list without the k-th
PositionWithout(i, k) == IF i < k THEN i ELSE i - 1

\* C27: deleting from the input list a sentence that fails (empty or not
\* aligned) leaves the span and the status of every other sentence unchanged.
C27_FailedSentenceIndependent ==
    AlignedWithout =>
        \A i \in DOMAIN fn_returned[1].result :
            i # fn_returned[2].deleted =>
                fn_returned[2].result[PositionWithout(i, fn_returned[2].deleted)]
                    = fn_returned[1].result[i]

\* a sentence that no span was found for has been deleted, and a sentence after
\* it is aligned
C27_Witness ==
    /\ AlignedWithout
    /\ fn_returned[1].result[fn_returned[2].deleted].status = "failed"
    /\ \E i \in DOMAIN fn_returned[1].result :
          /\ i > fn_returned[2].deleted
          /\ fn_returned[1].result[i].span # NoneSpan

(***************************************************************************)
(* The counters of the alignment report                                    *)
(***************************************************************************)
\* _perform_alignment has returned spans and report
AlignmentReturned == pc \in {"adjust", "audio", "done"}

\* sentence k was left to the fuzzy aligner, which ran it in iteration i
FuzzyIteration(k, i) ==
    /\ i \in DOMAIN l_trace
    /\ IF FuzzyOnly THEN i = k ELSE i \in DOMAIN failed_indices /\ failed_indices[i] + 1 = k

\* sentence k was accepted with status warning or fallback by the fuzzy aligner
\* or with a confidence below 0.9 by the LLM
AcceptedWithWarning(k) ==
    \/ /\ k \in DOMAIN g_task
       /\ g_task[k].kind = "ok"
       /\ g_task[k].confidence < 90
    \/ \E i \in DOMAIN l_trace :
          /\ FuzzyIteration(k, i)
          /\ ~l_trace[i].empty
          /\ l_trace[i].res.aligned
          /\ l_trace[i].res.status \in {"warning", "fallback"}

\* C28: after any run (local, llm or hybrid) aligned is the number of non-null
\* spans, unaligned the number of null spans, aligned + unaligned is
\* num_sentences, the per-method counts sum to aligned, and warnings is the
\* number of accepted sentences whose status is warning or fallback or whose
\* LLM confidence is below 0.9.
C28_ReportCounters ==
    AlignmentReturned =>
        /\ Len(computed_spans) = Len(sentences)
        /\ aligner_report.aligned = CountSpans(computed_spans)
        /\ aligner_report.unaligned = Len(computed_spans) - CountSpans(computed_spans)
        /\ aligner_report.aligned + aligner_report.unaligned = aligner_report.num_sentences
        /\ aligner_report.num_sentences = Len(sentences)
        /\ aligner_report.methods.grok + aligner_report.methods.fuzzy = aligner_report.aligned
        /\ aligner_report.warnings
              = Cardinality({k \in DOMAIN computed_spans : AcceptedWithWarning(k)})

\* a hybrid run has returned in which the LLM accepted a sentence with low
\* confidence and the fuzzy aligner accepted another one with a warning
C28_Witness ==
    /\ AlignmentReturned
    /\ method = "hybrid"
    /\ \E k \in DOMAIN g_task : g_task[k].kind = "ok" /\ g_task[k].confidence < 90
    /\ \E i \in DOMAIN l_trace :
          ~l_trace[i].empty /\ l_trace[i].res.aligned /\ l_trace[i].res.status = "warning"
    /\ aligner_report.warnings = 2

(***************************************************************************)
(* The collection of the LLM results                                       *)
(***************************************************************************)
\* GrokAligner.align_sentences is between the submission and its return
GrokCollecting == pc = "grok_run" /\ pc' = "grok_run"

\* the step is an iteration of the collecting loop for sentence k
CollectingStep(k) == g_task[k].state = "done" /\ g_task'[k].state = "collected"

\* a position of spans is written by the collecting loop only, for its own
\* sentence, with that sentence's result, and while it is still None
WrittenByIndex ==
    \A k \in DOMAIN g_spans :
        g_spans'[k] # g_spans[k] =>
            /\ CollectingStep(k)
            /\ g_spans[k] = NoneSpan
            /\ g_spans'[k] = FutureSpan(g_task[k])

\* a collected sentence is not collected again
CollectedOnce ==
    \A k \in DOMAIN g_task : g_task[k].state = "collected" => g_task'[k] = g_task[k]

\* a step of a worker changes its own future and nothing else; spans and
\* report change in the collecting loop only
WorkersShareNothing ==
    \A k \in DOMAIN g_task :
        (g_task'[k] # g_task[k] /\ ~CollectingStep(k)) =>
            /\ g_spans' = g_spans
            /\ g_report' = g_report
            /\ \A j \in DOMAIN g_task : j # k => g_task'[j] = g_task[j]

\* C29: LLM results are collected by sentence index: for every order in which
\* the worker requests complete, the span list returned by
\* GrokAligner.align_sentences is the same; each sentence's result is written
\* only to its own position and at most once; workers share no mutable state,
\* the report being updated only by the collecting thread.
C29_CollectedByIndex ==
    /\ []((pc = "grok_run" /\ AllCollected) =>
              g_spans = [k \in DOMAIN g_task |-> FutureSpan(g_task[k])])
    /\ [][GrokCollecting => (WrittenByIndex /\ CollectedOnce /\ WorkersShareNothing)]_vars

\* the second sentence's result has been collected and stored while the first
\* sentence's request is still running
C29_Witness ==
    /\ pc = "grok_run"
    /\ Len(g_task) = 2
    /\ g_task[1].state = "running"
    /\ g_task[2].state = "collected"
    /\ g_spans[1] = NoneSpan
    /\ g_spans[2] # NoneSpan

(***************************************************************************)
(* The selection of anchors                                                *)
(***************************************************************************)
\* extract_anchors has returned
AnchorsExtracted == fn_call.fn = "extract_anchors" /\ fn_returned # <<>>

\* a token that may be an anchor: not a stopword, and numeric or of length >= 5
AnchorEligible(token) ==
    /\ MapSeq(token, ToLower) \notin stopwords
    /\ (IsDigitString(token) \/ Len(token) >= 5)

\* the score the selection ranks the token by: its IDF, 1.0 more for a number
AnchorScore(token, idf) ==
    IF IsDigitString(token)
    THEN (IF token \in DOMAIN idf THEN idf[token] ELSE Micro) + Micro
    ELSE (IF token \in DOMAIN idf THEN idf[token] ELSE 500000)

\* the positions (from 0) of the anchors returned
ChosenPositions(anchors) == {anchors[i][1] : i \in DOMAIN anchors}

\* anchors are at most max_anchors eligible tokens of the list, in strictly
\* increasing positions
EligibleInOrder(tokens, anchors, max_anchors) ==
    /\ Len(anchors) <= max_anchors
    /\ \A i \in DOMAIN anchors :
          /\ anchors[i][1] + 1 \in DOMAIN tokens
          /\ tokens[anchors[i][1] + 1] = anchors[i][2]
          /\ AnchorEligible(anchors[i][2])
    /\ \A i, j \in DOMAIN anchors : i < j => anchors[i][1] < anchors[j][1]

\* anchors are the highest-scoring eligible tokens: as many of them as
\* max_anchors allows, whether or not they occur in the transcription, and none
\* left out scores higher than one chosen
HighestScoring(tokens, idf, anchors, max_anchors) ==
    /\ Len(anchors) = Min(max_anchors, Cardinality({p \in DOMAIN tokens : AnchorEligible(tokens[p])}))
    /\ \A p \in DOMAIN tokens :
          (AnchorEligible(tokens[p]) /\ (p - 1) \notin ChosenPositions(anchors)) =>
              \A i \in DOMAIN anchors :
                  AnchorScore(anchors[i][2], idf) >= AnchorScore(tokens[p], idf)

\* C30: for every sentence token list extract_anchors returns at most
\* max_anchors anchors, each a non-stopword token that is numeric or has
\* length >= 5, chosen as the highest-scoring eligible tokens and returned with
\* strictly increasing in-sentence positions; anchors that never occur in the
\* transcription stay in the list.
C30_AnchorSelection ==
    AnchorsExtracted =>
        /\ EligibleInOrder(fn_call.args[1], fn_returned[1], fn_call.args[3])
        /\ HighestScoring(fn_call.args[1], fn_call.args[2], fn_returned[1], fn_call.args[3])

====
